---- MODULE Spec2Model ----
(***************************************************************************)
(* Multi-adaptive time slab (dolfin/ode/MultiAdaptiveTimeSlab.cpp).        *)
(*                                                                         *)
(* Times are integers on a grid of GridStep ticks; real_epsilon() is       *)
(* smaller than the distance of any two different times that occur, so     *)
(* every epsilon comparison of the source is kept as it is written.        *)
(* Arrays are functions over 0 .. size-1 (the allocated capacity) and keep *)
(* their old content beyond the part a build fills.  Every operation is an *)
(* operator from the slab to the slab; a value an operation returns is     *)
(* left in the field rv, the out-parameter end of computeEndTime in rend.  *)
(*                                                                         *)
(* The integrals of a form (cpp/dolfin/fem/FormIntegrals.cpp) are the      *)
(* variable integrals, with the outcome of the last call in call; they     *)
(* have a specification of their own, SpecIntegrals.                       *)
(***************************************************************************)
EXTENDS Integers, Sequences, FiniteSets, TLC

VARIABLES slab, kdes, method, sparsity, pc, nbuilds, tcov, breq, params, solver,
          integrals, call

vars == <<pc, nbuilds, tcov, breq, kdes, method, sparsity, params, solver, slab,
          integrals, call>>

----------------------------------------------------------------------------
(* Bounds of the model *)

\* number of components of the ODE
N == 3

\* number of build calls in one behaviour
MaxBuilds == 2

----------------------------------------------------------------------------
(* Scalars *)

\* real_epsilon()
Eps == 1

\* every sub-slab end point is a multiple of GridStep; nodal times are
\* multiples of GridStep/2 or GridStep/3, hence at least 2 apart from them
GridStep == 2 * 3

\* desired time steps the controller may hand out
StepRatio == 2

Steps == {GridStep, StepRatio * GridStep, StepRatio * StepRatio * GridStep}

\* ode.endtime()
EndTime == 5 * GridStep

\* adaptivity.kmax()
kmax == StepRatio * StepRatio * GridStep

\* adaptivity.threshold() = ThresholdNum / ThresholdDen
ThresholdNum == 3
ThresholdDen == 4

\* the pivot of Partition::update is PivotNum / PivotDen of the largest step
PivotNum == 3
PivotDen == 4

Comps == 0 .. N - 1

min(x, y) == IF x < y THEN x ELSE y

max(x, y) == IF x > y THEN x ELSE y

SetMin(S) == CHOOSE x \in S : \A y \in S : x <= y

SetMax(S) == CHOOSE x \in S : \A y \in S : x >= y

RECURSIVE Gcd(_, _)
Gcd(x, y) == IF y = 0 THEN x ELSE Gcd(y, x % y)

Abs(x) == IF x < 0 THEN -x ELSE x

\* a rational number in lowest terms with a positive denominator
Normal(n, d, g) == <<n \div g, d \div g>>

Rat(n, d) ==
  IF d < 0 THEN Normal(-n, -d, Gcd(Abs(n), Abs(d)))
  ELSE Normal(n, d, Gcd(Abs(n), Abs(d)))

\* a real data value (a dof, a component value) is a rational; a time is an
\* integer number of ticks
Real(x) == <<x, 1>>

\* the empty array and the array grown by Alloc::realloc
EmptyArr == [x \in {} |-> 0]

Realloc(arr, oldsize, newsize, zero) ==
  [x \in 0 .. newsize - 1 |-> IF x < oldsize THEN arr[x] ELSE zero]

----------------------------------------------------------------------------
(* Method: cG(q) and dG(q) *)

\* nodal and quadrature points are given in sixths of the reference interval
PointDen == 6

cG2 == [type |-> "cG", nsize |-> 2, qsize |-> 3,
        npoint |-> [n \in {0, 1} |-> 3 * (n + 1)],
        qpoint |-> [m \in {0, 1, 2} |-> 3 * m]]

dG1 == [type |-> "dG", nsize |-> 2, qsize |-> 2,
        npoint |-> [n \in {0, 1} |-> 2 + 4 * n],
        qpoint |-> [m \in {0, 1} |-> 2 + 4 * m]]

Methods == {cG2, dG1}

\* the sum of c[n] * x[n] / den for rationals x[n] and integers c[n]
RECURSIVE DenProduct(_)
DenProduct(x) == IF x = <<>> THEN 1 ELSE Head(x)[2] * DenProduct(Tail(x))

RECURSIVE NumSum(_, _, _)
NumSum(x, c, D) ==
  IF x = <<>> THEN 0
  ELSE Head(x)[1] * (D \div Head(x)[2]) * Head(c) + NumSum(Tail(x), Tail(c), D)

WeightedSumD(x, c, den, D) == Rat(NumSum(x, c, D), D * den)

WeightedSum(x, c, den) == WeightedSumD(x, c, den, DenProduct(x))

\* Method::ueval: the element polynomial at tau = p/q, as a rational.
\* cG(2) interpolates x0 at 0 and the dofs at 1/2 and 1; dG(1) interpolates
\* the dofs at 1/3 and 1 and ignores x0.
ueval(m, x0, dofs, p, q) ==
  IF m.type = "cG"
    THEN WeightedSum(<<x0, dofs[0], dofs[1]>>,
                     <<(q - 2 * p) * (q - p), 4 * p * (q - p), p * (2 * p - q)>>,
                     q * q)
    ELSE WeightedSum(<<dofs[0], dofs[1]>>, <<3 * (q - p), 3 * p - q>>, 2 * q)

----------------------------------------------------------------------------
(* ODE: dependency pattern *)

\* ode.dependencies[i]: the components f_i reads
dependencies(i) ==
  IF sparsity = "dense" THEN Comps ELSE {i, (i + 1) % N}

\* ode.transpose[i]: the components whose f reads u_i
transpose(i) == {j \in Comps : i \in dependencies(j)}

\* the std::vector of a dependency list, in increasing index order
RECURSIVE SetToSeq(_)
SetToSeq(S) ==
  IF S = {} THEN <<>>
  ELSE <<SetMin(S)>> \o SetToSeq(S \ {SetMin(S)})

\* ode.f(u, t, i) reads the components i depends on
odef(u, t, i) == <<i, t, [j \in dependencies(i) |-> u[j]]>>

----------------------------------------------------------------------------
(* Partition *)

\* the components at the positions offset.. whose step reaches the pivot
LargeStep(perm, offset, i) ==
  kdes[i] * PivotDen >=
    PivotNum * SetMax({kdes[perm[n + 1]] : n \in offset .. N - 1})

PartitionHead(perm, offset) ==
  SelectSeq(SubSeq(perm, offset + 1, N), LAMBDA i : LargeStep(perm, offset, i))

PartitionRest(perm, offset) ==
  SelectSeq(SubSeq(perm, offset + 1, N), LAMBDA i : ~LargeStep(perm, offset, i))

PartitionResult(perm, offset, K, head) ==
  [perm |-> SubSeq(perm, 1, offset) \o head \o PartitionRest(perm, offset),
   end  |-> offset + Len(head),
   K    |-> min(K, SetMin({kdes[head[n]] : n \in 1 .. Len(head)}))]

\* Partition::update(offset, end, adaptivity, K): stable partition of the
\* positions offset.. into the components whose step reaches the pivot and
\* the rest; gives the new permutation, end and the step K' <= K
PartitionUpdate(perm, offset, K) ==
  PartitionResult(perm, offset, K, PartitionHead(perm, offset))

----------------------------------------------------------------------------
(* Interval predicates *)

\* within(t, a, b): t in (a, b], choosing the left interval at an edge
within3(t, a, b) == (a + Eps) < t /\ t <= (b + Eps)

\* within(a0, b0, a1, b1): [a0, b0] is contained in [a1, b1]
within4(a0, b0, a1, b1) == a1 <= (a0 + Eps) /\ (b0 - Eps) <= b1

\* a failed dolfin_assert is recorded and the statement it guards is skipped
Fail(s, what) == [s EXCEPT !.failed = @ \cup {what}]

\* return b from a function
Return(s, b) == [s EXCEPT !.rv = b]

----------------------------------------------------------------------------
(* Dry run: allocData, computeDataSize *)

EndTimeSet(s, p, a, b) ==
  [s EXCEPT !.partition = p.perm, !.kmin = min(@, b - a),
            !.rv = b, !.rend = p.end]

\* faulty variant of computeEndTime: the end time is always a + K
EndTimeFrom_Always(s, p, a, b) == EndTimeSet(s, p, a, a + p.K)

EndTimeFrom(s, p, a, b) ==
  IF p.K * ThresholdDen < ThresholdNum * (b - a)
    THEN EndTimeSet(s, p, a, a + p.K)
    ELSE EndTimeSet(s, p, a, b)

\* computeEndTime(a, b, offset, end): the end time is left in rv, end in rend
computeEndTime(s, a, b, offset) ==
  EndTimeFrom(s, PartitionUpdate(s.partition, offset, min(kmax, b - a)), a, b)

\* faulty variant of countDependencies(i0): a component that has come as
\* far as i0 is counted as well
countDependencies1_Reached(s, i0) ==
  method.nsize *
    Cardinality({i1 \in dependencies(i0) : s.u[i0][1] >= s.u[i1][1]})

\* countDependencies(i0): dry-run count, u holds the latest time reached
countDependencies1(s, i0) ==
  method.nsize *
    Cardinality({i1 \in dependencies(i0) : s.u[i0][1] > (s.u[i1][1] + Eps)})

RECURSIVE SumDeps1(_, _, _)
SumDeps1(s, n, end) ==
  IF n >= end THEN 0
  ELSE countDependencies1(s, s.partition[n + 1]) + SumDeps1(s, n + 1, end)

\* computeDataSize: u keeps the latest time of the components of the head
DataSizeMark(s, offset) ==
  [s EXCEPT !.u = [i \in Comps |->
                     IF \E n \in offset .. s.rend - 1 : s.partition[n + 1] = i
                       THEN Real(s.rv) ELSE @[i]]]

\* computeDataSize: the contribution of this sub-slab
DataSizeAdd(s, offset) ==
  [s EXCEPT !.ns = @ + 1,
            !.ne = @ + (s.rend - offset),
            !.nj = @ + method.nsize * (s.rend - offset),
            !.nd = @ + SumDeps1(s, offset, s.rend)]

RECURSIVE computeDataSize(_, _, _, _)
RECURSIVE DataSizeLoop(_, _, _, _)
RECURSIVE DataSizeNext(_, _, _, _)
RECURSIVE DataSizeFrom(_, _, _)

\* the while loop of computeDataSize over the nested sub-slabs
DataSizeLoop(s, t, b, end) ==
  IF t < b /\ end < N
    THEN DataSizeNext(computeDataSize(s, t, b, end), t, b, end)
    ELSE s

\* t = computeDataSize(t, b, end): a loop that would go on with the same t
\* for ever is recorded and left
DataSizeNext(s, t, b, end) ==
  IF s.rv > t THEN DataSizeLoop(s, s.rv, b, end) ELSE Fail(s, "no_progress")

DataSizeFrom(c, a, offset) ==
  Return(DataSizeLoop(DataSizeAdd(DataSizeMark(c, offset), offset),
                      a, c.rv, c.rend),
         c.rv)

\* computeDataSize(a, b, offset)
computeDataSize(s, a, b, offset) ==
  DataSizeFrom(computeEndTime(s, a, b, offset), a, offset)

\* alloc_s, alloc_e, alloc_j, alloc_d: reset next, grow but never shrink
alloc_s(s, newsize) ==
  IF newsize <= s.size_s.size
    THEN [s EXCEPT !.size_s.next = 0]
    ELSE [s EXCEPT !.size_s = [next |-> 0, size |-> newsize],
                   !.sa = Realloc(@, s.size_s.size, newsize, 0),
                   !.sb = Realloc(@, s.size_s.size, newsize, 0)]

\* faulty variant of alloc_e: the arrays grow to twice the size asked for
alloc_e_Double(s, newsize) ==
  IF newsize <= s.size_e.size
    THEN [s EXCEPT !.size_e.next = 0]
    ELSE [s EXCEPT !.size_e = [next |-> 0, size |-> 2 * newsize],
                   !.ei = Realloc(@, s.size_e.size, 2 * newsize, 0),
                   !.es = Realloc(@, s.size_e.size, 2 * newsize, 0),
                   !.ee = Realloc(@, s.size_e.size, 2 * newsize, 0),
                   !.ed = Realloc(@, s.size_e.size, 2 * newsize, 0)]

alloc_e(s, newsize) ==
  IF newsize <= s.size_e.size
    THEN [s EXCEPT !.size_e.next = 0]
    ELSE [s EXCEPT !.size_e = [next |-> 0, size |-> newsize],
                   !.ei = Realloc(@, s.size_e.size, newsize, 0),
                   !.es = Realloc(@, s.size_e.size, newsize, 0),
                   !.ee = Realloc(@, s.size_e.size, newsize, 0),
                   !.ed = Realloc(@, s.size_e.size, newsize, 0)]

alloc_j(s, newsize) ==
  IF newsize <= s.size_j.size
    THEN [s EXCEPT !.size_j.next = 0]
    ELSE [s EXCEPT !.size_j = [next |-> 0, size |-> newsize],
                   !.jx = Realloc(@, s.size_j.size, newsize, Real(0))]

\* faulty variant of alloc_d: the array is reallocated to the size asked for
alloc_d_Exact(s, newsize) ==
  [s EXCEPT !.size_d = [next |-> 0, size |-> newsize],
            !.de = Realloc(@, s.size_d.size, newsize, 0)]

alloc_d(s, newsize) ==
  IF newsize <= s.size_d.size
    THEN [s EXCEPT !.size_d.next = 0]
    ELSE [s EXCEPT !.size_d = [next |-> 0, size |-> newsize],
                   !.de = Realloc(@, s.size_d.size, newsize, 0)]

\* faulty variant of allocData: u keeps the times of the last dry run
AllocStart_Stale(s, a) ==
  [s EXCEPT !.ns = 0, !.ne = 0, !.nj = 0, !.nd = 0]

\* allocData: u keeps track of the latest time value, the counts start at 0
AllocStart(s, a) ==
  [s EXCEPT !.u = [i \in Comps |-> Real(a)],
            !.ns = 0, !.ne = 0, !.nj = 0, !.nd = 0]

\* allocData: allocate, then reset the mapping de
AllocArrays(s) ==
  alloc_d(alloc_j(alloc_e(alloc_s(s, s.ns), s.ne), s.nj), s.nd)

AllocReset(s) ==
  [s EXCEPT !.de = [d \in DOMAIN @ |-> IF d < s.nd THEN -1 ELSE @[d]]]

\* allocData(a, b)
allocData(s, a, b) ==
  AllocReset(AllocArrays(computeDataSize(AllocStart(s, a), a, b, 0)))

----------------------------------------------------------------------------
(* Creation pass: createTimeSlab, create_s, create_e, create_j, create_d *)

\* create_j(index): the dofs of a new element start at u0
create_j(s, index) ==
  IF ~((s.size_j.next + method.nsize - 1) < s.size_j.size)
    THEN Fail(s, "create_j")
    ELSE [s EXCEPT !.size_j.next = @ + method.nsize,
                   !.jx = [j \in DOMAIN @ |->
                             IF s.size_j.next <= j /\ j < s.size_j.next + method.nsize
                               THEN s.u0[index] ELSE @[j]]]

\* the empty positions of the range of e1
FreeSlots(s, e1) ==
  {d \in s.ed[e1] .. s.ed[e1 + 1] - 1 : d \in DOMAIN s.de /\ s.de[d] = -1}

\* faulty variant of the search: the large element is stored, not the new one
FillSlot_Self(s, e1, e0) ==
  IF (e1 + 1) \notin DOMAIN s.ed \/ (e1 + 1) \notin s.edw \/ e1 \notin s.edw
    THEN Fail(s, "ed_range")
  ELSE IF FreeSlots(s, e1) = {}
    THEN Fail(s, "create_d_found")
  ELSE [s EXCEPT !.de[SetMin(FreeSlots(s, e1))] = e1]

\* create_d: the search for an empty position in the range of e1
FillSlot(s, e1, e0) ==
  IF (e1 + 1) \notin DOMAIN s.ed \/ (e1 + 1) \notin s.edw \/ e1 \notin s.edw
    THEN Fail(s, "ed_range")
  ELSE IF FreeSlots(s, e1) = {}
    THEN Fail(s, "create_d_found")
  ELSE [s EXCEPT !.de[SetMin(FreeSlots(s, e1))] = e0]

\* the time of dof n of element e1
NodalTime(s, e1, n) ==
  s.sa[s.es[e1]]
    + ((s.sb[s.es[e1]] - s.sa[s.es[e1]]) * method.npoint[n]) \div PointDen

\* create_d, the loop over the dofs of the other element e1
RECURSIVE create_d_dofs(_, _, _, _, _, _)
create_d_dofs(s, n, e1, e0, a0, b0) ==
  IF n >= method.nsize THEN s
  ELSE create_d_dofs(IF within3(NodalTime(s, e1, n), a0, b0)
                       THEN FillSlot(s, e1, e0) ELSE s,
                     n + 1, e1, e0, a0, b0)

\* create_d: only elements with larger time steps get the dependency
LargerElement(s, e1, s0, a0, b0) ==
  /\ e1 # -1
  /\ within4(a0, b0, s.sa[s.es[e1]], s.sb[s.es[e1]])
  /\ s0 # s.es[e1]

\* create_d, the loop over the components depending on i0
RECURSIVE create_d_deps(_, _, _, _, _, _)
create_d_deps(s, deps, e0, s0, a0, b0) ==
  IF deps = <<>> THEN s
  ELSE create_d_deps(IF LargerElement(s, s.elast[Head(deps)], s0, a0, b0)
                       THEN create_d_dofs(s, 0, s.elast[Head(deps)], e0, a0, b0)
                       ELSE s,
                     Tail(deps), e0, s0, a0, b0)

\* faulty variant of create_d: the loop goes over the components i0 depends on
create_d_Forward(s, i0, e0, s0, a0, b0) ==
  create_d_deps(s, SetToSeq(dependencies(i0)), e0, s0, a0, b0)

\* create_d(i0, e0, s0, a0, b0)
create_d(s, i0, e0, s0, a0, b0) ==
  create_d_deps(s, SetToSeq(transpose(i0)), e0, s0, a0, b0)

\* faulty variant of create_e: the previous element is taken to be the one
\* created just before
NewElement_Previous(s, index, subslab, pos) ==
  [s EXCEPT !.size_e.next = @ + 1,
            !.ei[pos] = index,
            !.es[pos] = subslab,
            !.ee[pos] = pos - 1]

\* faulty variant of create_e: the element is stored as its own predecessor
NewElement_Self(s, index, subslab, pos) ==
  [s EXCEPT !.size_e.next = @ + 1,
            !.ei[pos] = index,
            !.es[pos] = subslab,
            !.ee[pos] = pos]

\* create_e: the new element at position pos
NewElement(s, index, subslab, pos) ==
  [s EXCEPT !.size_e.next = @ + 1,
            !.ei[pos] = index,
            !.es[pos] = subslab,
            !.ee[pos] = s.elast[index]]

SetElast(s, index, pos) == [s EXCEPT !.elast[index] = pos]

\* create_e(index, subslab, a, b)
create_e(s, index, subslab, a, b) ==
  IF ~(s.size_e.next < s.size_e.size)
    THEN Fail(s, "create_e")
    ELSE SetElast(create_d(create_j(NewElement(s, index, subslab, s.size_e.next),
                                    index),
                           index, s.size_e.next, subslab, a, b),
                  index, s.size_e.next)

\* faulty variant of countDependencies(i0, b0): a component without an
\* element is not counted
countDependencies2_Created(s, i0, b0) ==
  method.nsize *
    Cardinality({i1 \in dependencies(i0) :
                   /\ s.elast[i1] # -1
                   /\ s.sb[s.es[s.elast[i1]]] < (b0 - Eps)})

\* countDependencies(i0, b0): creation-time count, from the elements created
countDependencies2(s, i0, b0) ==
  method.nsize *
    Cardinality({i1 \in dependencies(i0) :
                   \/ s.elast[i1] = -1
                   \/ s.sb[s.es[s.elast[i1]]] < (b0 - Eps)})

\* create_s, first loop: the elements of the sub-slab in partition order
RECURSIVE create_s_elements(_, _, _, _, _, _)
create_s_elements(s, n, end, pos, a0, b0) ==
  IF n >= end THEN s
  ELSE create_s_elements(create_e(s, s.partition[n + 1], pos, a0, b0),
                         n + 1, end, pos, a0, b0)

\* faulty variant of the second loop of create_s: ed is written before the
\* dependencies of the element are counted
UpdateEd_Before(s, element, next) ==
  [s EXCEPT !.size_d.next = next,
            !.ed = [e \in DOMAIN @ |->
                      IF e = element + 1 /\ element < s.ne - 1 THEN s.size_d.next
                      ELSE IF e = 0 /\ element = 0 THEN 0
                      ELSE @[e]],
            !.edw = @ \cup (IF element = 0 THEN {0} ELSE {})
                      \cup (IF element < s.ne - 1 THEN {element + 1} ELSE {})]

\* faulty variant of the second loop of create_s: ed[element + 1] is written
\* for the last element as well
UpdateEd_Unguarded(s, element, next) ==
  [s EXCEPT !.size_d.next = next,
            !.ed = [e \in DOMAIN @ |->
                      IF e = element + 1 THEN next
                      ELSE IF e = 0 /\ element = 0 THEN 0
                      ELSE @[e]],
            !.edw = @ \cup (IF element = 0 THEN {0} ELSE {})
                      \cup {element + 1}]

\* create_s, second loop, one element: update the mapping ed
UpdateEd(s, element, next) ==
  [s EXCEPT !.size_d.next = next,
            !.ed = [e \in DOMAIN @ |->
                      IF e = element + 1 /\ element < s.ne - 1 THEN next
                      ELSE IF e = 0 /\ element = 0 THEN 0
                      ELSE @[e]],
            !.edw = @ \cup (IF element = 0 THEN {0} ELSE {})
                      \cup (IF element < s.ne - 1 THEN {element + 1} ELSE {})]

\* create_s, second loop: the mapping ed
RECURSIVE create_s_ed(_, _, _, _)
create_s_ed(s, n, end, b0) ==
  IF n >= end THEN s
  ELSE IF s.elast[s.partition[n + 1]] = -1
    THEN create_s_ed(Fail(s, "create_s_element"), n + 1, end, b0)
  ELSE create_s_ed(UpdateEd(s, s.elast[s.partition[n + 1]],
                            s.size_d.next
                              + countDependencies2(s, s.partition[n + 1], b0)),
                   n + 1, end, b0)

\* faulty variant of create_s: the start time is stored as the end time
NewSubSlab_Empty(s, pos, a0, b0) ==
  [s EXCEPT !.size_s.next = @ + 1, !.sa[pos] = a0, !.sb[pos] = a0]

\* create_s: the new sub-slab at position pos
NewSubSlab(s, pos, a0, b0) ==
  [s EXCEPT !.size_s.next = @ + 1, !.sa[pos] = a0, !.sb[pos] = b0]

\* create_s(a0, b0, offset, end)
create_s(s, a0, b0, offset, end) ==
  IF ~(s.size_s.next < s.size_s.size)
    THEN Fail(s, "create_s")
    ELSE create_s_ed(create_s_elements(NewSubSlab(s, s.size_s.next, a0, b0),
                                       offset, end, s.size_s.next, a0, b0),
                     offset, end, b0)

RECURSIVE createTimeSlab(_, _, _, _)
RECURSIVE TimeSlabLoop(_, _, _, _)
RECURSIVE TimeSlabNext(_, _, _, _)
RECURSIVE TimeSlabFrom(_, _, _)

\* the while loop of createTimeSlab over the nested sub-slabs
TimeSlabLoop(s, t, b, end) ==
  IF t < b /\ end < N
    THEN TimeSlabNext(createTimeSlab(s, t, b, end), t, b, end)
    ELSE s

\* t = createTimeSlab(t, b, end): a loop that would go on with the same t
\* for ever is recorded and left
TimeSlabNext(s, t, b, end) ==
  IF s.rv > t THEN TimeSlabLoop(s, s.rv, b, end) ELSE Fail(s, "no_progress")

\* faulty variant of createTimeSlab: the start time is returned
TimeSlabFrom_Start(c, a, offset) ==
  Return(TimeSlabLoop(create_s(c, a, c.rv, offset, c.rend), a, c.rv, c.rend),
         a)

\* faulty variant of createTimeSlab: the sub-slab is created after the
\* sub-slabs nested in it
TimeSlabFrom_PostOrder(c, a, offset) ==
  Return(create_s(TimeSlabLoop(c, a, c.rv, c.rend), a, c.rv, offset, c.rend),
         c.rv)

TimeSlabFrom(c, a, offset) ==
  Return(TimeSlabLoop(create_s(c, a, c.rv, offset, c.rend), a, c.rv, c.rend),
         c.rv)

\* createTimeSlab(a, b, offset)
createTimeSlab(s, a, b, offset) ==
  TimeSlabFrom(computeEndTime(s, a, b, offset), a, offset)

\* faulty variant of build: elast keeps the elements of the last build
BuildReset_Keep(s) == [s EXCEPT !.kmin = EndTime, !.edw = {}]

\* faulty variant of build: kmin keeps the value of the dry run
BuildReset_Kmin(s) ==
  [s EXCEPT !.elast = [i \in Comps |-> -1], !.edw = {}]

\* build: reset elast and kmin before the creation pass
BuildReset(s) ==
  [s EXCEPT !.elast = [i \in Comps |-> -1], !.kmin = EndTime, !.edw = {}]

\* faulty variant of the update at t = 0: build gives up if the hook fails
BuildUpdate_Checked(s, a, hook) ==
  IF a < Eps
    THEN [s EXCEPT !.nupdate = @ + 1,
                   !.hooked = [recorded |-> s.a = a /\ s.b = s.rv,
                               created |-> s.ne > 0 /\ s.size_e.next = s.ne],
                   !.rv = IF hook THEN @ ELSE a]
    ELSE s

\* build: ode.update(u0, a, false) at t = 0; hook is what the call returns,
\* hooked keeps whether the slab was created and recorded when it was called
BuildUpdate(s, a, hook) ==
  IF a < Eps
    THEN [s EXCEPT !.nupdate = @ + 1,
                   !.hooked = [recorded |-> s.a = a /\ s.b = s.rv,
                               created |-> s.ne > 0 /\ s.size_e.next = s.ne]]
    ELSE s

\* build: save start and end time, then update at t = 0
BuildSave(s, a, hook) == BuildUpdate([s EXCEPT !.a = a, !.b = s.rv], a, hook)

\* build(a, b): the end time b' is left in rv
build(s, a, b, hook) ==
  BuildSave(createTimeSlab(BuildReset(allocData(s, a, b)), a, b, 0), a, hook)

----------------------------------------------------------------------------
(* Coverage: coverSlab, coverNext, coverTime *)

\* faulty variant of coverSlab: the sweep does not stop at the next sub-slab
RECURSIVE coverSlab_Through(_, _, _)
coverSlab_Through(s, subslab, e) ==
  IF e < s.ne
    THEN coverSlab_Through(SetElast(s, s.ei[e], e), subslab, e + 1)
    ELSE Return(s, e)

\* coverSlab(subslab, e0): the first element not covered is left in rv
RECURSIVE coverSlab(_, _, _)
coverSlab(s, subslab, e) ==
  IF e < s.ne /\ s.es[e] = subslab
    THEN coverSlab(SetElast(s, s.ei[e], e), subslab, e + 1)
    ELSE Return(s, e)

\* coverNext(subslab, element): the sub-slab is left in rv
coverNext(s, subslab, element) ==
  IF subslab = s.es[element]
    THEN Return(s, subslab)
    ELSE Return(coverSlab(s, s.es[element], element), s.es[element])

\* faulty variant of the first loop of coverTime: t is taken to be covered
coverCheck_Covered(s, t, i) == [ok |-> TRUE, emax |-> s.emax]

\* coverTime, first loop: is t covered for all components; gives ok and emax
RECURSIVE coverCheck(_, _, _)
coverCheck(s, t, i) ==
  IF i >= N THEN [ok |-> TRUE, emax |-> s.emax]
  ELSE IF s.elast[i] = -1 THEN [ok |-> FALSE, emax |-> 0]
  ELSE IF t < (s.sa[s.es[s.elast[i]]] + Eps) THEN [ok |-> FALSE, emax |-> 0]
  ELSE IF t > (s.sb[s.es[s.elast[i]]] + Eps) THEN [ok |-> FALSE, emax |-> s.emax]
  ELSE coverCheck(s, t, i + 1)

\* coverTime: reset sampling if necessary
coverRewind(s, t) ==
  IF s.emax >= s.ne THEN [s EXCEPT !.emax = 0]
  ELSE IF t < (s.sa[s.es[s.emax]] + Eps) THEN [s EXCEPT !.emax = 0]
  ELSE s

\* coverTime, last loop: iterate forward until t is covered
RECURSIVE coverSweep(_, _, _)
coverSweep(s, t, e) ==
  IF e >= s.ne THEN s
  ELSE IF t < (s.sa[s.es[e]] + Eps) /\ s.a < (s.sa[s.es[e]] - Eps) THEN s
  ELSE coverSweep([s EXCEPT !.elast[s.ei[e]] = e, !.emax = e], t, e + 1)

coverForward(s, t) == coverSweep(s, t, s.emax)

coverFrom(s, c, t) ==
  IF c.ok THEN [s EXCEPT !.emax = c.emax]
  ELSE coverForward(coverRewind([s EXCEPT !.emax = c.emax], t), t)

\* coverTime(t)
coverTime(s, t) == coverFrom(s, coverCheck(s, t, 0), t)

----------------------------------------------------------------------------
(* Sampling *)

\* sample(t)
sample(s, t) == coverTime(s, t)

\* the dofs of element e, jx + e*nsize
Dofs(s, e) == [n \in 0 .. method.nsize - 1 |-> s.jx[e * method.nsize + n]]

\* the initial value of element e of component i (only necessary for cG)
InitialValue(s, i, e) ==
  IF s.ee[e] # -1
    THEN s.jx[s.ee[e] * method.nsize + method.nsize - 1]
    ELSE s.u0[i]

\* faulty variant of usample: the time is taken relative to the slab
usample_SlabTime(s, i, t) ==
  ueval(method, InitialValue(s, i, s.elast[i]), Dofs(s, s.elast[i]),
        t - s.a,
        s.sb[s.es[s.elast[i]]] - s.sa[s.es[s.elast[i]]])

\* usample(i, t)
usample(s, i, t) ==
  ueval(method, InitialValue(s, i, s.elast[i]), Dofs(s, s.elast[i]),
        t - s.sa[s.es[s.elast[i]]],
        s.sb[s.es[s.elast[i]]] - s.sa[s.es[s.elast[i]]])

\* ksample(i, t)
ksample(s, i, t) == s.sb[s.es[s.elast[i]]] - s.sa[s.es[s.elast[i]]]

----------------------------------------------------------------------------
(* feval: the right-hand side at the quadrature points of an element *)

\* the end of the range of e0 in de
feval_end(s, e0) == IF e0 < s.ne - 1 THEN s.ed[e0 + 1] ELSE s.nd

\* the quadrature point t = a0 + k0*qpoint(m) of element e0
feval_time(s, e0, m) ==
  s.sa[s.es[e0]]
    + ((s.sb[s.es[e0]] - s.sa[s.es[e0]]) * method.qpoint[m]) \div PointDen

\* f[m] = value; fval keeps the buffers f, one for each call of feval
feval_set(s, value) == [s EXCEPT !.fval[Len(s.fval)] = Append(@, value)]

\* u[i1] = ueval(x0, jx + e1*nn, (t - a1)/k1), with x0 = 0.0 for dG
feval_interpolate(s, i1, e1, t) ==
  [s EXCEPT !.u[i1] =
     ueval(method,
           IF method.type = "cG" THEN InitialValue(s, i1, e1) ELSE Real(0),
           Dofs(s, e1),
           t - s.sa[s.es[e1]],
           s.sb[s.es[e1]] - s.sa[s.es[e1]])]

\* faulty variant of the fast evaluation: the dof at m is taken by cG as well
feval_same_Shifted(s, i1, e1, m) ==
  IF (e1 * method.nsize + m) \notin DOMAIN s.jx
    THEN Fail(s, "feval_jx")
    ELSE [s EXCEPT !.u[i1] = s.jx[e1 * method.nsize + m],
                   !.jread = @ \cup {<<e1, m, e1 * method.nsize + m>>}]

\* fast evaluation for an element of the same sub-slab: u[i1] = jx[j1 + m - 1]
\* for cG and jx[j1 + m] for dG; jread keeps the positions of jx read
feval_same(s, i1, e1, m) ==
  IF method.type = "cG"
    THEN [s EXCEPT !.u[i1] = s.jx[e1 * method.nsize + m - 1],
                   !.jread = @ \cup {<<e1, m, e1 * method.nsize + m - 1>>}]
    ELSE [s EXCEPT !.u[i1] = s.jx[e1 * method.nsize + m],
                   !.jread = @ \cup {<<e1, m, e1 * method.nsize + m>>}]

\* one dependency with a larger or equal time step at quadrature point m
feval_dep(s, i1, e0, m) ==
  IF s.elast[i1] = -1 THEN s
  ELSE IF s.es[s.elast[i1]] = s.es[e0] THEN feval_same(s, i1, s.elast[i1], m)
  ELSE IF s.sb[s.es[s.elast[i1]]] < (s.sa[s.es[e0]] + Eps) THEN s
  ELSE feval_interpolate(s, i1, s.elast[i1], feval_time(s, e0, m))

\* the loop over the dependencies of i0
RECURSIVE feval_deps(_, _, _, _)
feval_deps(s, deps, e0, m) ==
  IF deps = <<>> THEN s
  ELSE feval_deps(feval_dep(s, Head(deps), e0, m), Tail(deps), e0, m)

\* the loop over the components with smaller time steps: e1 = de[d++];
\* dread keeps the positions of de read, one sequence for each call of feval
RECURSIVE feval_small(_, _, _, _)
feval_small(s, d, end, t) ==
  IF d >= end THEN s
  ELSE IF d \notin DOMAIN s.de THEN Fail(s, "feval_range")
  ELSE IF s.de[d] = -1
    THEN feval_small(Fail([s EXCEPT !.dread[Len(s.dread)] = Append(@, d)], "feval_de"),
                     d + 1, end, t)
  ELSE feval_small(feval_interpolate([s EXCEPT !.dread[Len(s.dread)] = Append(@, d)],
                                     s.ei[s.de[d]], s.de[d], t),
                   d + 1, end, t)

\* one quadrature point: both loops, then f[m] = ode.f(u, t, i0)
feval_value(s, e0, m) == feval_set(s, odef(s.u, feval_time(s, e0, m), s.ei[e0]))

feval_point(s, e0, m, d, ndep) ==
  feval_value(feval_small(feval_deps(s, SetToSeq(dependencies(s.ei[e0])), e0, m),
                          d, d + ndep, feval_time(s, e0, m)),
              e0, m)

\* faulty variant of the loop over the quadrature points: d starts at ed[e0]
\* at every point
RECURSIVE feval_points_Restart(_, _, _, _, _)
feval_points_Restart(s, e0, m, d, ndep) ==
  IF m >= method.qsize THEN s
  ELSE feval_points_Restart(feval_point(s, e0, m, d, ndep), e0, m + 1, d, ndep)

\* the loop over the quadrature points from m on; d goes on through de
RECURSIVE feval_points(_, _, _, _, _)
feval_points(s, e0, m, d, ndep) ==
  IF m >= method.qsize THEN s
  ELSE feval_points(feval_point(s, e0, m, d, ndep), e0, m + 1, d + ndep, ndep)

\* d = ed[e0], ndep = (end - d) / nn, the assert, and the loop from point m
feval_loop(s, e0, m) ==
  feval_points(IF ((feval_end(s, e0) - s.ed[e0]) \div method.nsize) * method.nsize
                    = feval_end(s, e0) - s.ed[e0]
                 THEN s ELSE Fail(s, "feval_ndep"),
               e0, m, s.ed[e0],
               (feval_end(s, e0) - s.ed[e0]) \div method.nsize)

\* faulty variant of the left end-point: an element of the same sub-slab
\* gives its own last dof
cg_left_dep_Current(s, i1, e0) ==
  IF s.elast[i1] = -1 THEN [s EXCEPT !.u[i1] = s.u0[i1]]
  ELSE IF s.es[s.elast[i1]] = s.es[e0]
         \/ s.sb[s.es[s.elast[i1]]] < (s.sa[s.es[e0]] + Eps)
    THEN [s EXCEPT !.u[i1] = s.jx[s.elast[i1] * method.nsize + method.nsize - 1]]
  ELSE feval_interpolate(s, i1, s.elast[i1], s.sa[s.es[e0]])

\* cg_feval, left end-point: the value of one dependency at a0
cg_left_dep(s, i1, e0) ==
  IF s.elast[i1] = -1 THEN [s EXCEPT !.u[i1] = s.u0[i1]]
  ELSE IF s.es[s.elast[i1]] = s.es[e0]
    THEN [s EXCEPT !.u[i1] = InitialValue(s, i1, s.elast[i1])]
  ELSE IF s.sb[s.es[s.elast[i1]]] < (s.sa[s.es[e0]] + Eps)
    THEN [s EXCEPT !.u[i1] = s.jx[s.elast[i1] * method.nsize + method.nsize - 1]]
  ELSE feval_interpolate(s, i1, s.elast[i1], s.sa[s.es[e0]])

RECURSIVE cg_left_deps(_, _, _)
cg_left_deps(s, deps, e0) ==
  IF deps = <<>> THEN s
  ELSE cg_left_deps(cg_left_dep(s, Head(deps), e0), Tail(deps), e0)

\* cg_feval, left end-point: f[0]
cg_left(s, e0) ==
  IF s.sa[s.es[e0]] < (s.a + Eps)
    THEN feval_set(s, s.f0[s.ei[e0]])
    ELSE feval_value(cg_left_deps(s, SetToSeq(dependencies(s.ei[e0])), e0), e0, 0)

\* cg_feval(f, s0, e0, i0, a0, b0, k0) with the data of element e0
cg_feval(s, e0) == feval_loop(cg_left(s, e0), e0, 1)

\* dg_feval(f, s0, e0, i0, a0, b0, k0) with the data of element e0
dg_feval(s, e0) == feval_loop(s, e0, 0)

\* feval on a new buffer f
feval(s, e0) ==
  IF method.type = "cG"
    THEN cg_feval([s EXCEPT !.fval = Append(@, <<>>), !.dread = Append(@, <<>>)], e0)
    ELSE dg_feval([s EXCEPT !.fval = Append(@, <<>>), !.dread = Append(@, <<>>)], e0)

----------------------------------------------------------------------------
(* solve, check, shift, reset *)

\* the value the solver leaves in dof n of element e
SolverValue(e, n) == Real(100 * (e + 1) + 10 * n)

\* a sweep over the slab starts with no element covered
ResetElast(s) == [s EXCEPT !.elast = [i \in Comps |-> -1]]

\* the controller goes through the elements in order and covers the next
\* sub-slab when it comes to its first element: s = coverNext(s, e)
RECURSIVE AdaptivitySweep(_, _, _)
AdaptivityNext(s, e) == AdaptivitySweep(s, s.rv, e + 1)

AdaptivitySweep(s, subslab, e) ==
  IF e >= s.ne THEN s
  ELSE AdaptivityNext(coverNext(s, subslab, e), e)

\* the solver evaluates the right-hand side of element e and sets its dofs
SolverUpdate(s, e) ==
  [s EXCEPT !.jx = [j \in DOMAIN @ |->
                      IF j \div method.nsize = e
                        THEN SolverValue(e, j % method.nsize) ELSE @[j]]]

\* the solver goes through the sub-slabs in order, covers each sub-slab and
\* then updates its elements e .. end - 1
RECURSIVE SolverSweep(_, _)
RECURSIVE SolverElements(_, _, _)
SolverSubSlab(s, e) == SolverElements(s, e, s.rv)

SolverElements(s, e, end) ==
  IF e >= end \/ e >= s.ne THEN SolverSweep(s, end)
  ELSE SolverElements(SolverUpdate(feval(s, e), e), e + 1, end)

SolverSweep(s, e) ==
  IF e >= s.ne THEN s
  ELSE SolverSubSlab(coverSlab(s, s.es[e], e), e)

\* solver->solve(): what the solver returns is left in rv
SolverSolve(s, ok) ==
  Return(SolverSweep([ResetElast(s) EXCEPT
                        !.fval = <<>>, !.dread = <<>>, !.jread = {}],
                     0),
         ok)

\* faulty variant of the first part of solve: u is not set to u0
SolveStart_Scratch(s) ==
  [s EXCEPT !.f0 = IF method.type = "cG"
                     THEN [i \in Comps |-> odef(s.u0, s.a, i)]
                     ELSE @]

\* solve: copy u0 to u, compute f at the left end-point for cG
SolveStart(s) ==
  [s EXCEPT !.u = s.u0,
            !.f0 = IF method.type = "cG"
                     THEN [i \in Comps |-> odef(s.u0, s.a, i)]
                     ELSE @]

\* solve(): ok is what solver->solve() returns
solve(s, ok) == SolverSolve(SolveStart(s), ok)

\* adaptivity.update(slab, _b, first): the residuals are computed in one
\* sweep over the elements, which starts with no sub-slab
AdaptivityUpdate(s) == AdaptivitySweep(ResetElast(s), -1, 0)

\* check(first): accept is what adaptivity.accept() returns
check(s, accept) == Return(AdaptivityUpdate(s), accept)

\* faulty variant of the loop of shift: the first dof is taken
RECURSIVE shift_values_First(_, _)
shift_values_First(s, i) ==
  IF i >= N THEN s
  ELSE IF s.elast[i] = -1 THEN shift_values_First(Fail(s, "shift_elast"), i + 1)
  ELSE shift_values_First(
         [s EXCEPT !.u[i] = s.jx[s.elast[i] * method.nsize],
                   !.failed = IF s.sb[s.es[s.elast[i]]] = s.b
                                THEN @ ELSE @ \cup {"shift_end"}],
         i + 1)

\* shift, the loop taking the end-time values: the assertions and u
RECURSIVE shift_values(_, _)
shift_values(s, i) ==
  IF i >= N THEN s
  ELSE IF s.elast[i] = -1 THEN shift_values(Fail(s, "shift_elast"), i + 1)
  ELSE shift_values(
         [s EXCEPT !.u[i] = s.jx[s.elast[i] * method.nsize + method.nsize - 1],
                   !.failed = IF s.sb[s.es[s.elast[i]]] = s.b
                                THEN @ ELSE @ \cup {"shift_end"}],
         i + 1)

\* faulty variant of shift: the initial value is set before the user is asked
shift_update_Early(s, update) ==
  Return([s EXCEPT !.nupdate = @ + 1, !.u0 = s.u], update)

\* faulty variant of shift: the slab is moved to start at its end time
shift_update_Advance(s, update) ==
  IF ~update
    THEN Return([s EXCEPT !.nupdate = @ + 1], FALSE)
    ELSE Return([s EXCEPT !.nupdate = @ + 1, !.u0 = s.u, !.a = s.b], TRUE)

\* shift: let the user update the ODE, then set the initial value
shift_update(s, update) ==
  IF ~update
    THEN Return([s EXCEPT !.nupdate = @ + 1], FALSE)
    ELSE Return([s EXCEPT !.nupdate = @ + 1, !.u0 = s.u], TRUE)

\* faulty variant of shift: the end time is not covered first
shift_Uncovered(s, end, update) ==
  shift_update(shift_values(s, 0), update)

\* shift(end): update is the value ode.update(u, _b, end) returns
shift(s, end, update) ==
  shift_update(shift_values(coverTime(s, s.b), 0), update)

\* faulty variant of reset: the whole array jx is overwritten
reset_All(s) ==
  [s EXCEPT !.jx = [j \in DOMAIN @ |-> s.u0[s.ei[j \div method.nsize]]]]

\* reset()
reset(s) ==
  [s EXCEPT !.jx = [j \in DOMAIN @ |->
                      IF j < s.ne * method.nsize
                        THEN s.u0[s.ei[j \div method.nsize]] ELSE @[j]]]

----------------------------------------------------------------------------
(* The slab object and its driver *)

\* the values of "ODE nonlinear solver": the three names known, and one
\* that stands for every other name
SolverNames == {"fixed-point", "newton", "default", "other"}

\* the parameters "ODE implicit" and "ODE nonlinear solver"
Params == [implicit : BOOLEAN, solver : SolverNames]

DefaultParams == [implicit |-> FALSE, solver |-> "default"]

\* faulty variant of chooseSolver: implicit is looked at for unknown names only
chooseSolver_Late(p) ==
  IF p.solver \in {"fixed-point", "default"}
    THEN [error |-> FALSE, solver |-> "fixed-point"]
  ELSE IF p.solver = "newton"
    THEN [error |-> FALSE, solver |-> "newton"]
  ELSE [error |-> TRUE, solver |-> "none"]

\* chooseSolver(): error() does not return, no solver is created after it
chooseSolver(p) ==
  IF p.implicit THEN [error |-> TRUE, solver |-> "none"]
  ELSE IF p.solver = "fixed-point"
    THEN [error |-> FALSE, solver |-> "fixed-point"]
  ELSE IF p.solver = "newton"
    THEN [error |-> FALSE, solver |-> "newton"]
  ELSE IF p.solver = "default"
    THEN [error |-> FALSE, solver |-> "fixed-point"]
  ELSE [error |-> TRUE, solver |-> "none"]

----------------------------------------------------------------------------
(* FormIntegrals (cpp/dolfin/fem/FormIntegrals.cpp): for each type of       *)
(* integral a std::vector of Integral {tabulate, id, active_entities};      *)
(* a vector is a sequence, position i of the source is index i + 1          *)

\* FormIntegrals::Type, the types set_default_domains goes through
IntegralTypes == {"cell", "exterior_facet", "interior_facet"}

\* the ids a caller registers: -1 is the default integral, 0 is a subdomain,
\* and int has no lower limit
Ids == {-2, -1, 0}

\* the form has the default integral only on the interior facets
RegisterIds(type) == IF type = "interior_facet" THEN {-1} ELSE Ids

\* the positions asked for: the valid ones, the size and one beyond
Positions == 0 .. (Cardinality(Ids) + 1)

\* the kernel a caller registers for id i of a type
Kernel(type, i) == <<type, i>>

\* what a read past the end of the vector can give
PastEnd == {<<"garbage", 0>>, <<"crash", 0>>}

\* the mesh: the number of cells, and for each facet the number of cells it
\* belongs to
Mesh == [cells |-> 2, facets |-> <<1, 2, 1>>]

\* FormIntegrals(): no integrals
NoIntegrals == [type \in IntegralTypes |-> <<>>]

\* the outcome of the last call: i is the id or the position asked for, size
\* the size of the vector at the call, past is set when the call has read
\* past the end of the vector
NoCall ==
  [op |-> "none", type |-> "cell", i |-> 0, size |-> 0, thrown |-> FALSE,
   past |-> FALSE, tabulate |-> <<"none", 0>>, domains |-> <<>>]

\* faulty variant of the search: the new integral goes to the end
RECURSIVE InsertionPoint_End(_, _, _)
InsertionPoint_End(ints, i, pos) ==
  IF pos >= Len(ints) THEN pos
  ELSE IF ints[pos + 1].id = i THEN -1
  ELSE InsertionPoint_End(ints, i, pos + 1)

\* register_tabulate_tensor, the loop "find insertion point" from position
\* pos on: -1 stands for the exception
RECURSIVE InsertionPoint(_, _, _)
InsertionPoint(ints, i, pos) ==
  IF pos >= Len(ints) THEN pos
  ELSE IF ints[pos + 1].id = i THEN -1
  ELSE IF ints[pos + 1].id > i THEN pos
  ELSE InsertionPoint(ints, i, pos + 1)

\* integrals.insert(integrals.begin() + pos, new_integral)
InsertAt(ints, pos, new) ==
  SubSeq(ints, 1, pos) \o <<new>> \o SubSeq(ints, pos + 1, Len(ints))

\* register_tabulate_tensor(type, i, fn) on the vector of the type
register_tabulate_tensor(ints, i, fn) ==
  IF InsertionPoint(ints, i, 0) = -1
    THEN [thrown |-> TRUE, integrals |-> ints]
    ELSE [thrown |-> FALSE,
          integrals |-> InsertAt(ints, InsertionPoint(ints, i, 0),
                                 [tabulate |-> fn, id |-> i,
                                  active_entities |-> <<>>])]

\* num_integrals(type)
num_integrals(ints) == Len(ints)

\* get_tabulate_tensor_function(type, i): the outcomes; integrals[i] with
\* i = integrals.size() is a read past the end
get_tabulate_tensor_function(ints, i) ==
  IF i > Len(ints)
    THEN {[thrown |-> TRUE, past |-> FALSE, tabulate |-> <<"none", 0>>]}
  ELSE IF i = Len(ints)
    THEN {[thrown |-> FALSE, past |-> TRUE, tabulate |-> g] : g \in PastEnd}
  ELSE {[thrown |-> FALSE, past |-> FALSE, tabulate |-> ints[i + 1].tabulate]}

\* integral_domains(type, i)
integral_domains(ints, i) ==
  IF i >= Len(ints)
    THEN [thrown |-> TRUE, domains |-> <<>>]
    ELSE [thrown |-> FALSE, domains |-> ints[i + 1].active_entities]

\* the indices (from 0) of the facets that belong to n cells, or to another
\* number of cells, in increasing order
RECURSIVE Facets(_, _, _)
Facets(f, n, same) ==
  IF f > Len(Mesh.facets) THEN <<>>
  ELSE IF (Mesh.facets[f] = n) = same
    THEN <<f - 1>> \o Facets(f + 1, n, same)
    ELSE Facets(f + 1, n, same)

\* the entities of the default integral of a type
DefaultEntities(type) ==
  IF type = "cell" THEN [c \in 1 .. Mesh.cells |-> c - 1]
  ELSE IF type = "exterior_facet" THEN Facets(1, 1, TRUE)
  ELSE Facets(1, 1, FALSE)

\* set_default_domains(mesh): if there is a default integral at position 0,
\* define it on all cells, on the surface facets, on the interior facets
set_default_domains(ints) ==
  [type \in IntegralTypes |->
     IF Len(ints[type]) > 0 /\ ints[type][1].id = -1
       THEN [ints[type] EXCEPT ![1].active_entities = DefaultEntities(type)]
       ELSE ints[type]]

----------------------------------------------------------------------------
(* The driver of the time slab *)

\* the slab after the constructor
NewSlab ==
  [sa |-> EmptyArr, sb |-> EmptyArr, ei |-> EmptyArr, es |-> EmptyArr,
   ee |-> EmptyArr, ed |-> EmptyArr, jx |-> EmptyArr, de |-> EmptyArr,
   ns |-> 0, ne |-> 0, nj |-> 0, nd |-> 0,
   size_s |-> [next |-> 0, size |-> 0], size_e |-> [next |-> 0, size |-> 0],
   size_j |-> [next |-> 0, size |-> 0], size_d |-> [next |-> 0, size |-> 0],
   elast |-> [i \in Comps |-> -1],
   f0 |-> [i \in Comps |-> <<>>],
   u |-> [i \in Comps |-> Real(0)],
   u0 |-> [i \in Comps |-> Real(i + 1)],
   emax |-> 0, kmin |-> 0, a |-> 0, b |-> 0,
   partition |-> [n \in 1 .. N |-> n - 1],
   rv |-> 0, rend |-> 0, nupdate |-> 0, failed |-> {}, edw |-> {},
   fval |-> <<>>, dread |-> <<>>, jread |-> {},
   hooked |-> [recorded |-> FALSE, created |-> FALSE]]

Sparsities == {"dense", "chain"}

\* the end times the driver asks for: the end time of the ODE, or a tight one
BuildEnds(a) == {b \in {EndTime, a + 2 * GridStep} : a < b /\ b <= EndTime}

\* the times in [_a, _b] the driver samples at
SampleTimes == {t \in slab.a .. slab.b : (t - slab.a) % GridStep = 0}

\* the new steps of the controller: an accepted slab keeps its steps, a
\* slab that is not accepted has them refined
Adapt(k, accept) ==
  IF accept THEN k
  ELSE [i \in Comps |-> max(k[i] \div StepRatio, GridStep)]

Init ==
  /\ slab = NewSlab
  /\ kdes \in [Comps -> Steps]
  /\ method \in Methods
  /\ sparsity \in Sparsities
  /\ pc = "new"
  /\ nbuilds = 0
  /\ tcov = -1
  /\ breq = 0
  /\ params = DefaultParams
  /\ solver = chooseSolver(params).solver
  /\ integrals = NoIntegrals
  /\ call = NoCall

\* the start time of the next build
BuildStart ==
  IF pc = "new" THEN 0 ELSE IF pc = "shifted" THEN slab.b ELSE slab.a

\* what ode.update may return when build(a, b) calls it
HookResults(a) == IF a < Eps THEN BOOLEAN ELSE {TRUE}

\* b' = build(a, b): a first build, a build after a shift, a rebuild after a
\* rejected check, or the same build once more
Build ==
  /\ pc \in {"new", "shifted", "rejected", "built"}
  /\ nbuilds < MaxBuilds
  /\ \E b \in (IF pc = "built" THEN {breq} ELSE BuildEnds(BuildStart)) :
       /\ \E hook \in HookResults(BuildStart) :
            slab' = build(slab, BuildStart, b, hook)
       /\ breq' = b
  /\ pc' = "built"
  /\ nbuilds' = nbuilds + 1
  /\ tcov' = -1
  /\ UNCHANGED <<integrals, call, params, solver, kdes, method, sparsity>>

\* solve(); what the solver returns is an input, and the sweep is the same
\* for both values, so that it is computed once: solve(slab, ok) is
\* Return(solve(slab, TRUE), ok)
Solve ==
  /\ pc = "built"
  /\ \E solved \in {solve(slab, TRUE)} : \E ok \in BOOLEAN :
       /\ slab' = Return(solved, ok)
       /\ pc' = IF ok THEN "solved" ELSE "stopped"
  /\ UNCHANGED <<integrals, call, params, solver, kdes, method, sparsity, nbuilds, tcov, breq>>

\* the records of the solver's calls of feval are kept until the controller
\* or reset takes over
Forget(s) == [s EXCEPT !.fval = <<>>, !.dread = <<>>, !.jread = {}]

\* check(first)
Check ==
  /\ pc = "solved"
  /\ \E accept \in BOOLEAN :
       /\ slab' = Forget(check(slab, accept))
       /\ kdes' = Adapt(kdes, accept)
       /\ pc' = IF accept THEN "accepted" ELSE "rejected"
  /\ UNCHANGED <<integrals, call, params, solver, method, sparsity, nbuilds, tcov, breq>>

\* sample(t) for a time of the slab
Sample ==
  /\ pc = "accepted"
  /\ \E t \in SampleTimes :
       /\ slab' = sample(slab, t)
       /\ tcov' = t
  /\ UNCHANGED <<integrals, call, params, solver, kdes, method, sparsity, pc, nbuilds, breq>>

\* shift(end)
Shift ==
  /\ pc = "accepted"
  /\ \E update \in BOOLEAN :
       /\ slab' = shift(slab, slab.b >= EndTime, update)
       /\ pc' = IF update THEN "shifted" ELSE "vetoed"
  /\ tcov' = -1
  /\ UNCHANGED <<integrals, call, params, solver, kdes, method, sparsity, nbuilds, breq>>

\* reset()
Reset ==
  /\ pc = "solved"
  /\ slab' = Forget(reset(slab))
  /\ pc' = "built"
  /\ UNCHANGED <<integrals, call, params, solver, kdes, method, sparsity, nbuilds, tcov, breq>>

Next == Build \/ Solve \/ Check \/ Sample \/ Shift \/ Reset

Spec == Init /\ [][Next]_vars

\* the steps of the ODE the constructor is tried on
ConstructSteps == [i \in Comps |-> IF i = 0 THEN kmax ELSE GridStep]

\* before the constructor: any parameters
InitConstruct ==
  /\ slab = NewSlab
  /\ kdes = ConstructSteps
  /\ method \in Methods
  /\ sparsity \in Sparsities
  /\ pc = "config"
  /\ nbuilds = 0
  /\ tcov = -1
  /\ breq = 0
  /\ params \in Params
  /\ solver = "none"
  /\ integrals = NoIntegrals
  /\ call = NoCall

\* the constructor: solver = chooseSolver(), a fatal error ends it
Construct ==
  /\ pc = "config"
  /\ solver' = chooseSolver(params).solver
  /\ pc' = IF chooseSolver(params).error THEN "fatal" ELSE "new"
  /\ UNCHANGED <<integrals, call, slab, kdes, method, sparsity, nbuilds, tcov, breq, params>>

NextConstruct == Construct \/ Next

SpecConstruct == InitConstruct /\ [][NextConstruct]_vars

----------------------------------------------------------------------------
(* FormIntegrals: the calls *)

\* a form is assembled with no time slab at work
InitIntegrals ==
  /\ slab = NewSlab
  /\ kdes = ConstructSteps
  /\ method = cG2
  /\ sparsity = "dense"
  /\ pc = "form"
  /\ nbuilds = 0
  /\ tcov = -1
  /\ breq = 0
  /\ params = DefaultParams
  /\ solver = "none"
  /\ integrals = NoIntegrals
  /\ call = NoCall

SlabIdle ==
  UNCHANGED <<pc, nbuilds, tcov, breq, kdes, method, sparsity, params, solver,
              slab>>

\* register_tabulate_tensor(type, i, fn)
Register ==
  /\ \E type \in IntegralTypes : \E i \in RegisterIds(type) :
       /\ integrals' =
            [integrals EXCEPT
               ![type] = register_tabulate_tensor(@, i, Kernel(type, i)).integrals]
       /\ call' =
            [NoCall EXCEPT
               !.op = "register_tabulate_tensor", !.type = type, !.i = i,
               !.size = num_integrals(integrals[type]),
               !.thrown =
                 register_tabulate_tensor(integrals[type], i,
                                          Kernel(type, i)).thrown]
  /\ SlabIdle

\* get_tabulate_tensor_function(type, i)
GetTabulate ==
  /\ \E type \in IntegralTypes : \E i \in Positions :
       \E r \in get_tabulate_tensor_function(integrals[type], i) :
         call' = [NoCall EXCEPT
                    !.op = "get_tabulate_tensor_function", !.type = type,
                    !.i = i, !.size = num_integrals(integrals[type]),
                    !.thrown = r.thrown, !.past = r.past,
                    !.tabulate = r.tabulate]
  /\ UNCHANGED integrals
  /\ SlabIdle

\* integral_domains(type, i)
GetDomains ==
  /\ \E type \in IntegralTypes : \E i \in Positions :
       call' = [NoCall EXCEPT
                  !.op = "integral_domains", !.type = type, !.i = i,
                  !.size = num_integrals(integrals[type]),
                  !.thrown = integral_domains(integrals[type], i).thrown,
                  !.domains = integral_domains(integrals[type], i).domains]
  /\ UNCHANGED integrals
  /\ SlabIdle

\* set_default_domains(mesh)
SetDefaultDomains ==
  /\ integrals' = set_default_domains(integrals)
  /\ call' = [NoCall EXCEPT !.op = "set_default_domains"]
  /\ SlabIdle

NextIntegrals == Register \/ GetTabulate \/ GetDomains \/ SetDefaultDomains

SpecIntegrals == InitIntegrals /\ [][NextIntegrals]_vars

----------------------------------------------------------------------------
(* The slab as the claims read it *)

Elements == 0 .. slab.ne - 1

\* the interval of element e
ElementA(e) == slab.sa[slab.es[e]]
ElementB(e) == slab.sb[slab.es[e]]

\* the positions of de that belong to element e0, as cg_feval and dg_feval
\* compute them
DeEnd(e0) == IF e0 < slab.ne - 1 THEN slab.ed[e0 + 1] ELSE slab.nd
DeRange(e0) == slab.ed[e0] .. DeEnd(e0) - 1

\* the capacity assertions of create_s, create_e and create_j
CapacityAsserts == {"create_s", "create_e", "create_j"}

\* C1: after every build (first, after a shift, or a rebuild with the same a)
\* the counters of the creation pass end at the counts of the dry run,
\* size_s.next = ns, size_e.next = ne, size_j.next = nj, size_d.next = nd,
\* and no capacity assertion of create_s, create_e, create_j has fired
C1_DryRunEqualsCreation ==
  nbuilds > 0 =>
    /\ slab.size_s.next = slab.ns
    /\ slab.size_e.next = slab.ne
    /\ slab.size_j.next = slab.nj
    /\ slab.size_d.next = slab.nd
    /\ slab.failed \cap CapacityAsserts = {}

\* a rebuild from the same start time with a tighter end time, with nested
\* sub-slabs and dependencies on smaller steps
C1_Witness ==
  /\ pc = "built" /\ nbuilds = 2 /\ slab.a = 0 /\ slab.nupdate = 2
  /\ slab.b < EndTime
  /\ slab.ns >= 3 /\ slab.nd >= 2 * method.nsize

\* C2: when build has returned, no position of de below nd is -1, and create_d
\* has always found an empty position in the range of the large element
C2_NoEmptyDependency ==
  nbuilds > 0 =>
    /\ \A d \in 0 .. slab.nd - 1 : slab.de[d] # -1
    /\ "create_d_found" \notin slab.failed
    /\ "ed_range" \notin slab.failed

C2_Witness ==
  /\ pc = "built" /\ slab.nd >= 2 * method.nsize
  /\ \E e1 \in Elements : DeEnd(e1) - slab.ed[e1] >= 2 * method.nsize

\* the group of nodal point n in the range of element e0
DeGroup(e0, n) ==
  {d \in DeRange(e0) :
     (d - slab.ed[e0]) \div ((DeEnd(e0) - slab.ed[e0]) \div method.nsize) = n}

\* the time of nodal point n of element e0
ElementNodalTime(e0, n) ==
  ElementA(e0) + ((ElementB(e0) - ElementA(e0)) * method.npoint[n]) \div PointDen

\* C3: after build the range of every element e0 in de is ordered by nodal
\* point: the n-th group of ndep consecutive positions holds one element of
\* each of ndep different components e0 depends on, and the interval of each
\* of these elements contains the time of nodal point n of e0
C3_GroupedByNodalPoint ==
  nbuilds > 0 =>
    \A e0 \in Elements : \A n \in 0 .. method.nsize - 1 :
      DeRange(e0) # {} =>
        /\ Cardinality({slab.ei[slab.de[d]] : d \in DeGroup(e0, n)})
             = (DeEnd(e0) - slab.ed[e0]) \div method.nsize
        /\ \A d \in DeGroup(e0, n) :
             /\ slab.ei[slab.de[d]] \in dependencies(slab.ei[e0])
             /\ within3(ElementNodalTime(e0, n),
                        ElementA(slab.de[d]), ElementB(slab.de[d]))

\* the elements of component i that end at the end of the slab
EndElements(i) ==
  {e \in Elements : slab.ei[e] = i /\ ElementB(e) = slab.b}

\* C4: after build every component has exactly one element that ends at _b;
\* the assertions of shift hold after any samples, and shift leaves elast at
\* that element
C4_OneEndElement ==
  /\ nbuilds > 0 => \A i \in Comps : Cardinality(EndElements(i)) = 1
  /\ slab.failed \cap {"shift_elast", "shift_end"} = {}
  /\ pc \in {"shifted", "vetoed"} =>
       \A i \in Comps : slab.elast[i] \in EndElements(i)

\* a shift of the first slab, of several sub-slabs, after samples that had
\* moved elast away from the end (only coverTime moves emax)
C4_Witness ==
  /\ pc = "shifted" /\ nbuilds = 1 /\ slab.ns >= 3
  /\ slab.emax = slab.ne - 1
  /\ \E i \in Comps : slab.ee[slab.elast[i]] # -1

\* element e is the element of component i for the time t
Covers(e, i, t) ==
  /\ e \in Elements
  /\ slab.ei[e] = i
  /\ IF t < slab.a + Eps
       THEN slab.ee[e] = -1
       ELSE within3(t, ElementA(e), ElementB(e))

ElementAt(i, t) == CHOOSE e \in Elements : Covers(e, i, t)

\* the value of the polynomial of element e of component i at time t
ElementValue(i, e, t) ==
  ueval(method, InitialValue(slab, i, e), Dofs(slab, e),
        t - ElementA(e), ElementB(e) - ElementA(e))

\* the times in (_a, _b] usample is called with
USampleTimes == SampleTimes \ {slab.a}

\* C6 as stated: for every t in (_a, _b] and every i, usample(i, t) is the
\* value at t of the element of i that contains t, whatever time the last
\* sample call covered
C6_USampleAnyTime ==
  (pc = "accepted" /\ tcov >= 0) =>
    \A t \in USampleTimes : \A i \in Comps :
      usample(slab, i, t) = ElementValue(i, ElementAt(i, t), t)

\* C6 amended: usample(i, t) is the value at t of the element of i that
\* contains t when the last sample call was sample(t)
C6_USampleAfterSample ==
  (pc = "accepted" /\ tcov > slab.a) =>
    \A i \in Comps :
      usample(slab, i, tcov) = ElementValue(i, ElementAt(i, tcov), tcov)

\* usample after sample(t) on an element that is neither the first nor the
\* last of its component
C6_Witness ==
  /\ pc = "accepted" /\ tcov > slab.a /\ tcov < slab.b
  /\ \E i \in Comps : /\ slab.ee[slab.elast[i]] # -1
                      /\ ElementB(slab.elast[i]) < slab.b
                      /\ usample(slab, i, tcov) # slab.u0[i]

\* a step of shift
ShiftStep == pc = "accepted" /\ pc' \in {"shifted", "vetoed"}

\* C7: shift returns false exactly when ode.update returns false, and then
\* u0, jx, the index arrays, _a and _b are as before the call
C7_ShiftVeto ==
  [][ShiftStep =>
       /\ slab'.rv = (pc' = "shifted")
       /\ (slab'.rv = FALSE) =>
            /\ slab'.u0 = slab.u0
            /\ slab'.jx = slab.jx
            /\ slab'.sa = slab.sa /\ slab'.sb = slab.sb
            /\ slab'.ei = slab.ei /\ slab'.es = slab.es
            /\ slab'.ee = slab.ee /\ slab'.ed = slab.ed
            /\ slab'.de = slab.de
            /\ slab'.a = slab.a /\ slab'.b = slab.b]_vars

\* a vetoed shift of a solved slab whose end-time values differ from u0
C7_Witness ==
  /\ pc = "vetoed" /\ slab.rv = FALSE
  /\ \E i \in Comps : slab.u[i] # slab.u0[i]

\* C8: after shift has returned true, u0[i] is the end-time value of
\* component i, ueval(x0, dofs of elast[i], 1), elast[i] ending at _b
C8_ShiftEndValue ==
  pc = "shifted" =>
    \A i \in Comps :
      /\ ElementB(slab.elast[i]) = slab.b
      /\ slab.u0[i] = ElementValue(i, slab.elast[i], slab.b)

\* a shift of a slab where a component has several elements
C8_Witness ==
  /\ pc = "shifted" /\ slab.rv = TRUE
  /\ \E i \in Comps : /\ slab.ee[slab.elast[i]] # -1
                      /\ slab.u0[i] # Real(i + 1)

\* C9: after build every element e1 in the range of e0 is in another
\* sub-slab, whose interval is contained in the interval of e0 (up to eps)
C9_DependentsContained ==
  nbuilds > 0 =>
    \A e0 \in Elements : \A d \in DeRange(e0) :
      /\ slab.de[d] \in Elements
      /\ slab.es[slab.de[d]] # slab.es[e0]
      /\ within4(ElementA(slab.de[d]), ElementB(slab.de[d]),
                 ElementA(e0), ElementB(e0))

\* a dependent with a strictly smaller interval, two levels down
C9_Witness ==
  /\ pc = "built"
  /\ \E e0 \in Elements : \E d \in DeRange(e0) :
       /\ slab.de[d] # -1
       /\ ElementB(slab.de[d]) - ElementA(slab.de[d])
            < ElementB(e0) - ElementA(e0)
       /\ slab.es[slab.de[d]] > slab.es[e0] + 1

\* C10: after build, for every element e with ee[e] # -1 the element ee[e]
\* is of the same component and ends where e starts
C10_Contiguous ==
  nbuilds > 0 =>
    \A e \in Elements :
      slab.ee[e] # -1 =>
        /\ slab.ee[e] \in Elements
        /\ slab.ei[slab.ee[e]] = slab.ei[e]
        /\ ElementB(slab.ee[e]) = ElementA(e)

\* a component with three elements in a row, in the second slab
C10_Witness ==
  /\ pc = "built" /\ nbuilds = 2 /\ slab.a > 0
  /\ \E e \in Elements : slab.ee[e] # -1 /\ slab.ee[slab.ee[e]] # -1


----------------------------------------------------------------------------
SubSlabs == 0 .. slab.ns - 1

\* C11: after build every element e has a component ei[e] in [0, N), a
\* sub-slab es[e] in [0, ns), and ee[e] is -1 or an element in [0, e)
C11_IndexRanges ==
  nbuilds > 0 =>
    \A e \in Elements :
      /\ slab.ei[e] \in Comps
      /\ slab.es[e] \in SubSlabs
      /\ slab.ee[e] \in ({-1} \cup (0 .. e - 1))

\* a second build, smaller than the first, whose arrays keep old content
\* beyond ne, with elements that have a predecessor
C11_Witness ==
  /\ pc = "built" /\ nbuilds = 2
  /\ slab.size_e.size > slab.ne
  /\ \E e \in Elements : slab.ee[e] # -1 /\ slab.es[e] = slab.ns - 1

\* the elements of component i
ElementsOf(i) == {e \in Elements : slab.ei[e] = i}

\* C12: after build the elements of a component have, in increasing e,
\* strictly increasing start times; ee[e] is the greatest earlier element of
\* the same component, and ee[e] = -1 exactly when e is the first element of
\* its component, which is exactly when e starts at _a
C12_PreviousElement ==
  nbuilds > 0 =>
    \A e \in Elements :
      /\ \A e1 \in ElementsOf(slab.ei[e]) :
           e1 < e => ElementA(e1) < ElementA(e)
      /\ slab.ee[e] = SetMax({-1} \cup {e1 \in ElementsOf(slab.ei[e]) : e1 < e})
      /\ (slab.ee[e] = -1) = (ElementA(e) = slab.a)

\* a build after a shift, where elast held elements of the slab before, with
\* a component of at least three elements
C12_Witness ==
  /\ pc = "built" /\ nbuilds = 2 /\ slab.nupdate = 2 /\ slab.a > 0
  /\ \E i \in Comps : Cardinality(ElementsOf(i)) >= 3

\* C13: after build every sub-slab has 0 <= sa < sb and lies in [_a, _b];
\* sa[0] = _a and the greatest sb is _b
C13_SubSlabIntervals ==
  nbuilds > 0 =>
    /\ \A s \in SubSlabs :
         /\ 0 <= slab.sa[s] /\ slab.sa[s] < slab.sb[s]
         /\ slab.a <= slab.sa[s] /\ slab.sb[s] <= slab.b
    /\ slab.sa[0] = slab.a
    /\ SetMax({slab.sb[s] : s \in SubSlabs}) = slab.b

\* a slab shortened below the end time asked for, with nested sub-slabs that
\* start inside it
C13_Witness ==
  /\ pc = "built" /\ slab.b < breq /\ slab.ns >= 3
  /\ \E s \in SubSlabs : slab.a < slab.sa[s]


\* a step of build
BuildStep == pc' = "built" /\ nbuilds' = nbuilds + 1

\* a step of build with the a, b, u0 and steps of the build before
RebuildStep == pc = "built" /\ BuildStep

TopStep(a, b) == PartitionUpdate(slab.partition, 0, min(kmax, b - a)).K

\* the end time of build(a, b), given K
ShortenedEnd(a, b, K) ==
  IF K * ThresholdDen < ThresholdNum * (b - a) THEN a + K ELSE b

\* C15: with K the step of the partition for the top-level sub-slab of
\* build(a, b), build returns a + K if K < threshold * (b - a) and b
\* otherwise; it records _a = a and _b = b', and a < b' <= b
C15_EndTime ==
  [][BuildStep =>
       /\ slab'.a = BuildStart
       /\ slab'.rv = ShortenedEnd(BuildStart, breq', TopStep(BuildStart, breq'))
       /\ slab'.b = slab'.rv
       /\ BuildStart < slab'.rv /\ slab'.rv <= breq']_vars

\* a build after a shift that was shortened to a + K
C15_Witness ==
  /\ pc = "built" /\ slab.a > 0 /\ slab.b < breq
  /\ slab.b - slab.a = slab.sb[0] - slab.sa[0]
  /\ (slab.b - slab.a) * ThresholdDen < ThresholdNum * (breq - slab.a)


\* the slab when the creation pass of build(a, b) starts
CreationStart(a, b) == BuildReset(allocData(slab, a, b))

\* the next counters of slab s are 0
NextCountersZero(s) ==
  /\ s.size_s.next = 0 /\ s.size_e.next = 0
  /\ s.size_j.next = 0 /\ s.size_d.next = 0

\* C16: over any sequence of builds the capacities size_s.size, size_e.size,
\* size_j.size and size_d.size never decrease, each is at least the count of
\* the current build, and the next counters are 0 when the creation pass of
\* a build starts
C16_Capacities ==
  [][/\ slab'.size_s.size >= slab.size_s.size
     /\ slab'.size_e.size >= slab.size_e.size
     /\ slab'.size_j.size >= slab.size_j.size
     /\ slab'.size_d.size >= slab.size_d.size
     /\ BuildStep =>
          /\ slab'.size_s.size >= slab'.ns /\ slab'.size_e.size >= slab'.ne
          /\ slab'.size_j.size >= slab'.nj /\ slab'.size_d.size >= slab'.nd
          /\ NextCountersZero(CreationStart(BuildStart, breq'))]_vars

\* a second build that needs less than the capacity of every array, made
\* from a state where the next counters were not 0
C16_Witness ==
  /\ pc = "built" /\ nbuilds = 2
  /\ slab.size_s.size > slab.ns /\ slab.size_e.size > slab.ne
  /\ slab.size_j.size > slab.nj /\ slab.size_d.size > slab.nd
  /\ slab.nd > 0


\* a step of build on a slab that has been built before
LaterBuildStep == nbuilds > 0 /\ BuildStep

\* C17 as stated: across the builds of one slab object the counts ns, ne, nj
\* and nd grow monotonically, each count after a build is at least the
\* count after the build before
C17_CountsMonotone ==
  [][LaterBuildStep =>
       /\ slab'.ns >= slab.ns /\ slab'.ne >= slab.ne
       /\ slab'.nj >= slab.nj /\ slab'.nd >= slab.nd]_vars

\* C17 amended: the counts are computed anew by every build and may become
\* smaller; what grows monotonically is the capacity, which after each build
\* is the greater of the capacity before and the count of this build
C17_CapacityIsGreatestCount ==
  [][BuildStep =>
       /\ slab'.size_s.size = max(slab.size_s.size, slab'.ns)
       /\ slab'.size_e.size = max(slab.size_e.size, slab'.ne)
       /\ slab'.size_j.size = max(slab.size_j.size, slab'.nj)
       /\ slab'.size_d.size = max(slab.size_d.size, slab'.nd)]_vars

\* a build with smaller counts than the build before, in arrays that keep
\* their capacity
C17_Witness ==
  /\ pc = "built" /\ nbuilds = 2
  /\ slab.ns < slab.size_s.size /\ slab.ne < slab.size_e.size
  /\ slab.nj < slab.size_j.size


\* C18: with "ODE implicit" true the constructor ends in a fatal error and
\* creates no solver, whatever "ODE nonlinear solver" is; with implicit false,
\* "fixed-point" and "default" give the fixed-point solver, "newton" the
\* Newton solver, and any other name is a fatal error
C18_ChooseSolver ==
  pc # "config" =>
    IF params.implicit \/ params.solver \notin {"fixed-point", "default", "newton"}
      THEN pc = "fatal" /\ solver = "none"
      ELSE /\ pc # "fatal"
           /\ solver = IF params.solver = "newton" THEN "newton" ELSE "fixed-point"

\* the constructor has ended in a fatal error for an implicit ODE with a
\* solver name that is known
C18_Witness ==
  pc = "fatal" /\ params.implicit /\ params.solver = "newton" /\ solver = "none"


\* the elements with smaller steps that element e depends on: the elements
\* of a component e depends on, of another sub-slab, created after e, with
\* an interval inside the interval of e
SmallElements(e) ==
  {e1 \in Elements :
     /\ e1 > e
     /\ slab.es[e1] # slab.es[e]
     /\ slab.ei[e1] \in dependencies(slab.ei[e])
     /\ within4(ElementA(e1), ElementB(e1), ElementA(e), ElementB(e))}

\* the components with smaller steps that element e depends on
SmallComponents(e) == {slab.ei[e1] : e1 \in SmallElements(e)}

\* C19 as stated: after build ed[0] = 0, ed[e] <= ed[e+1] (nd for the last
\* element), and the range of e holds nsize entries for every small-step
\* element e depends on
C19_RangePerElement ==
  nbuilds > 0 =>
    /\ slab.ed[0] = 0
    /\ \A e \in Elements :
         /\ slab.ed[e] <= DeEnd(e)
         /\ DeEnd(e) - slab.ed[e]
              = method.nsize * Cardinality(SmallElements(e))

\* C19 amended: after build ed[0] = 0, ed[e] <= ed[e+1] (nd for the last
\* element), and the range of e holds nsize entries for every component
\* with smaller steps e depends on, however many elements the component has
\* inside the interval of e
C19_RangePerComponent ==
  nbuilds > 0 =>
    /\ slab.ed[0] = 0
    /\ \A e \in Elements :
         /\ slab.ed[e] <= DeEnd(e)
         /\ DeEnd(e) - slab.ed[e]
              = method.nsize * Cardinality(SmallComponents(e))

\* an element that depends on two components with smaller steps, one of
\* them with four elements inside its interval
C19_Witness ==
  /\ pc = "built"
  /\ \E e \in Elements :
       /\ Cardinality(SmallComponents(e)) = 2
       /\ Cardinality(SmallElements(e)) >= 5
       /\ DeEnd(e) - slab.ed[e] = 2 * method.nsize


\* the position of component i in the partition
PartitionPos(i) == CHOOSE n \in 1 .. N : slab.partition[n] = i

\* sub-slab s1 is nested in sub-slab s0, or comes after it
NestedOrAfter(s1, s0) ==
  \/ within4(slab.sa[s1], slab.sb[s1], slab.sa[s0], slab.sb[s0])
  \/ slab.sb[s0] <= slab.sa[s1] + Eps

\* C20: within a build sub-slabs are numbered depth-first and elements are
\* appended as they are created: es[e] is non-decreasing in e and takes
\* every sub-slab from 0 on, so the elements of a sub-slab are contiguous
\* and come before the elements of the sub-slabs nested in it; inside a
\* sub-slab the elements are in partition order
C20_CreationOrder ==
  nbuilds > 0 =>
    /\ slab.es[0] = 0
    /\ \A e \in Elements :
         e + 1 \in Elements =>
           \/ slab.es[e + 1] = slab.es[e] + 1
           \/ /\ slab.es[e + 1] = slab.es[e]
              /\ PartitionPos(slab.ei[e + 1]) = PartitionPos(slab.ei[e]) + 1
    /\ slab.es[slab.ne - 1] = slab.ns - 1
    /\ \A s0, s1 \in SubSlabs : s0 < s1 => NestedOrAfter(s1, s0)

\* sub-slabs of three lengths, the first with two elements, built from a
\* partition that is not the identity
C20_Witness ==
  /\ pc = "built" /\ slab.ns >= 4
  /\ slab.es[1] = 0
  /\ slab.partition # [n \in 1 .. N |-> n - 1]
  /\ \E s \in SubSlabs : slab.sb[s] - slab.sa[s] < slab.sb[1] - slab.sa[1]
                           /\ slab.sb[1] - slab.sa[1] < slab.sb[0] - slab.sa[0]

\* a call of solve
SolveStep == pc = "built" /\ pc' \in {"solved", "stopped"}

\* the index arrays of the slab
IndexArrays(s) == <<s.sa, s.sb, s.ei, s.es, s.ee, s.ed, s.de>>

\* C21: when solve hands over to the solver u equals u0 and, for cG, f0[i]
\* is f(u0, _a, i), while for dG f0 is not written; solve returns what the
\* solver returns and leaves u0, _a, _b and the index arrays alone
C21_SolveHandOver ==
  [][SolveStep =>
       /\ \A i \in Comps : SolveStart(slab).u[i] = slab.u0[i]
       /\ method.type = "cG" =>
            \A i \in Comps :
              SolveStart(slab).f0[i]
                = <<i, slab.a, [j \in dependencies(i) |-> slab.u0[j]]>>
       /\ method.type = "dG" => SolveStart(slab).f0 = slab.f0
       /\ slab'.f0 = SolveStart(slab).f0
       /\ slab'.rv = (pc' = "solved")
       /\ slab'.u0 = slab.u0 /\ slab'.a = slab.a /\ slab'.b = slab.b
       /\ IndexArrays(slab') = IndexArrays(slab)]_vars

\* solve has been called for a second slab with cG, so that f0 is taken at
\* the new start time and the shifted initial values
C21_Witness ==
  /\ pc = "solved" /\ method.type = "cG" /\ slab.a > 0
  /\ \A i \in Comps : slab.f0[i] = odef(slab.u0, slab.a, i)
  /\ slab.u0 # [i \in Comps |-> Real(i + 1)]

\* a call of reset
ResetStep == pc = "solved" /\ pc' = "built"

\* C22: reset sets every dof of every element e < ne to u0[ei[e]] and
\* changes nothing else, the entries of jx from nj on included; right after
\* build it changes nothing at all, so that after the solver changed the dofs
\* it gives back what build created
C22_ResetFrame ==
  [][/\ ResetStep =>
          /\ \A e \in Elements : \A n \in 0 .. method.nsize - 1 :
               slab'.jx[e * method.nsize + n] = slab.u0[slab.ei[e]]
          /\ \A j \in DOMAIN slab.jx : j >= slab.nj => slab'.jx[j] = slab.jx[j]
          /\ DOMAIN slab'.jx = DOMAIN slab.jx
          /\ [slab' EXCEPT !.jx = slab.jx] = Forget(slab)
     /\ BuildStep => reset(slab') = slab']_vars

\* reset is called after the solver changed the dofs, on a slab whose array
\* jx holds dofs of an earlier, larger slab beyond nj
C22_Witness ==
  /\ pc = "built" /\ slab.ne > 0
  /\ slab.u # [i \in Comps |-> Real(slab.b)]
  /\ \A e \in Elements : slab.jx[e * method.nsize] = slab.u0[slab.ei[e]]
  /\ \E j \in DOMAIN slab.jx :
       j >= slab.nj /\ slab.jx[j] = SolverValue(j \div method.nsize, j % method.nsize)

\* the solver has evaluated every element of the slab
Evaluated == pc \in {"solved", "stopped"}

\* the quadrature points feval goes through: 1..qsize-1 for cG, 0..qsize-1 for dG
FevalPoints == (IF method.type = "cG" THEN 1 ELSE 0) .. method.qsize - 1

\* C23: in cg_feval and dg_feval, for every element e0 of a built slab, the
\* length of the range of e0 in de is a multiple of nsize (the assertion on
\* ndep holds), the evaluation reads exactly the entries of the range, in
\* order and each once, ndep at each of its quadrature points, never an
\* entry at or beyond the end of the range and never an entry that is -1
C23_DependencyReads ==
  Evaluated =>
    /\ slab.failed \cap {"feval_ndep", "feval_de", "feval_range"} = {}
    /\ Len(slab.dread) = slab.ne
    /\ \A e0 \in Elements :
         /\ (DeEnd(e0) - slab.ed[e0]) % method.nsize = 0
         /\ slab.dread[e0 + 1]
              = [k \in 1 .. DeEnd(e0) - slab.ed[e0] |-> slab.ed[e0] + k - 1]
         /\ Len(slab.dread[e0 + 1])
              = Cardinality(FevalPoints)
                  * ((DeEnd(e0) - slab.ed[e0]) \div method.nsize)
         /\ \A k \in DOMAIN slab.dread[e0 + 1] :
              /\ slab.dread[e0 + 1][k] < DeEnd(e0)
              /\ slab.de[slab.dread[e0 + 1][k]] # -1

\* an element with several dependencies at each quadrature point has been
\* evaluated
C23_Witness ==
  /\ Evaluated
  /\ \E e0 \in Elements : Len(slab.dread[e0 + 1]) >= 2 * method.nsize

\* the state of the slab when the solver calls feval for element e0: the
\* elements up to the last one of the sub-slab of e0 are covered, the
\* elements before e0 have their new dofs, the others the dofs build gave
SubSlabLast(e0) == SetMax({e \in Elements : slab.es[e] = slab.es[e0]})

CallElast(e0, i1) ==
  SetMax({-1} \cup {e \in 0 .. SubSlabLast(e0) : slab.ei[e] = i1})

CallDof(e0, e, n) == IF e < e0 THEN SolverValue(e, n) ELSE slab.u0[slab.ei[e]]

CallInitial(e0, i1, e1) ==
  IF slab.ee[e1] # -1 THEN CallDof(e0, slab.ee[e1], method.nsize - 1)
  ELSE slab.u0[i1]

\* the value of the dependency i1 at the left end-point of e0
LeftValue(e0, i1, e1) ==
  IF e1 = -1 THEN slab.u0[i1]
  ELSE IF slab.es[e1] = slab.es[e0] THEN CallInitial(e0, i1, e1)
  ELSE IF ElementB(e1) < ElementA(e0) + Eps THEN CallDof(e0, e1, method.nsize - 1)
  ELSE ueval(method, CallInitial(e0, i1, e1),
             [n \in 0 .. method.nsize - 1 |-> CallDof(e0, e1, n)],
             ElementA(e0) - ElementA(e1), ElementB(e1) - ElementA(e1))

\* C24: in cg_feval f[0] is the precomputed f0[i0] exactly when a0 < _a + eps;
\* otherwise it is ode.f(u, a0, i0) where, for each dependency i1 with
\* e1 = elast[i1], u[i1] is u0[i1] if e1 = -1, the last dof of ee[e1] (u0[i1]
\* if there is none) if e1 is in the sub-slab of e0, the last dof of e1 if the
\* sub-slab of e1 ends at or before a0, and else the polynomial of e1 at
\* (a0 - sa)/(sb - sa)
C24_LeftEndPoint ==
  (Evaluated /\ method.type = "cG") =>
    \A e0 \in Elements :
      slab.fval[e0 + 1][1] =
        IF ElementA(e0) < slab.a + Eps
          THEN slab.f0[slab.ei[e0]]
          ELSE <<slab.ei[e0], ElementA(e0),
                 [i1 \in dependencies(slab.ei[e0]) |->
                    LeftValue(e0, i1, CallElast(e0, i1))]>>

\* cg_feval has computed f[0] for an element that starts after _a, from an
\* element of its own sub-slab, one that ended before and a larger one
C24_Witness ==
  /\ Evaluated /\ method.type = "cG"
  /\ \E e0 \in Elements :
       /\ ElementA(e0) > slab.a
       /\ \E i1 \in dependencies(slab.ei[e0]) :
            /\ CallElast(e0, i1) # -1
            /\ slab.es[CallElast(e0, i1)] = slab.es[e0]
       /\ \E i1 \in dependencies(slab.ei[e0]) :
            /\ CallElast(e0, i1) # -1
            /\ slab.es[CallElast(e0, i1)] # slab.es[e0]
            /\ ElementB(CallElast(e0, i1)) > ElementA(e0)
  /\ \E e0 \in Elements : \E i1 \in dependencies(slab.ei[e0]) :
       /\ ElementA(e0) > slab.a
       /\ CallElast(e0, i1) # -1
       /\ ElementB(CallElast(e0, i1)) <= ElementA(e0)

\* the position of jx feval reads at point m for an element e1 of the
\* sub-slab of the evaluated element
SamePosition(e1, m) ==
  e1 * method.nsize + (IF method.type = "cG" THEN m - 1 ELSE m)

\* C25: for a dependency whose current element e1 = elast[i1] lies in the
\* sub-slab of the evaluated element, feval at quadrature point m reads
\* jx[e1*nsize + m - 1] for cG (m >= 1) and jx[e1*nsize + m] for dG, and this
\* position lies in the dof block [e1*nsize, (e1+1)*nsize) of e1
C25_SameSubSlabDof ==
  Evaluated =>
    /\ "feval_jx" \notin slab.failed
    /\ \A r \in slab.jread :
         /\ r[2] \in FevalPoints
         /\ r[3] = SamePosition(r[1], r[2])
         /\ r[1] * method.nsize <= r[3]
         /\ r[3] < (r[1] + 1) * method.nsize
    /\ \A e0 \in Elements : \A i1 \in dependencies(slab.ei[e0]) :
         \A e1 \in {CallElast(e0, i1)} :
           (e1 # -1 /\ slab.es[e1] = slab.es[e0])
             => \A m \in FevalPoints :
                  <<e1, m, SamePosition(e1, m)>> \in slab.jread

\* feval has read the last dof of the block of another element of the same
\* sub-slab
C25_Witness ==
  /\ Evaluated
  /\ \E e0 \in Elements : \E i1 \in dependencies(slab.ei[e0]) \ {slab.ei[e0]} :
       /\ CallElast(e0, i1) # -1
       /\ slab.es[CallElast(e0, i1)] = slab.es[e0]
       /\ <<CallElast(e0, i1), method.qsize - 1,
            (CallElast(e0, i1) + 1) * method.nsize - 1>> \in slab.jread

\* C26: after build every entry e1 of the range of an element e0 in de is
\* an element created after e0 whose component is one of the dependencies of
\* the component of e0; when a component takes one large step over the slab,
\* the components in the range of its element have their last element after
\* it, and the range holds no element of the component itself
C26_RangeEntries ==
  nbuilds > 0 =>
    \A e0 \in Elements : \A d \in DeRange(e0) :
      /\ slab.de[d] \in Elements
      /\ slab.de[d] > e0
      /\ slab.ei[slab.de[d]] \in dependencies(slab.ei[e0])
      /\ slab.ei[slab.de[d]] # slab.ei[e0]
      /\ (pc = "built" /\ ElementsOf(slab.ei[e0]) = {e0})
           => slab.elast[slab.ei[slab.de[d]]] > slab.elast[slab.ei[e0]]

\* a component takes one large step and depends on some but not all of the
\* components with smaller steps
C26_Witness ==
  /\ pc = "built" /\ sparsity = "chain"
  /\ \E e0 \in Elements :
       /\ ElementsOf(slab.ei[e0]) = {e0}
       /\ DeRange(e0) # {}
       /\ \E e1 \in Elements :
            /\ e1 > e0
            /\ ElementB(e1) - ElementA(e1) < ElementB(e0) - ElementA(e0)
            /\ slab.ei[e1] \notin dependencies(slab.ei[e0])

\* the maximal run of consecutive elements from e0 on in sub-slab subslab
CoverRun(subslab, e0) ==
  {e \in e0 .. slab.ne - 1 : \A e2 \in e0 .. e : slab.es[e2] = subslab}

\* elast after the elements of the run have been covered
CoverElast(subslab, e0) ==
  [i \in Comps |->
     IF \E e \in CoverRun(subslab, e0) : slab.ei[e] = i
       THEN SetMax({e \in CoverRun(subslab, e0) : slab.ei[e] = i})
       ELSE slab.elast[i]]

\* the sub-slabs coverSlab and coverNext are called with at element e: none,
\* the sub-slab of e, and another one
CoverInputs(e) == {-1, slab.es[e], (slab.es[e] + 1) % slab.ns}

\* C27: coverSlab(subslab, e0) sets elast[ei[e]] = e for exactly the maximal
\* run of consecutive elements from e0 on whose sub-slab is subslab and
\* returns the first element after the run; coverNext(subslab, e) changes
\* nothing and returns subslab when es[e] = subslab, and else covers the run
\* of the sub-slab es[e] from e on and returns es[e]; nothing but elast is
\* changed
C27_CoverSlabNext ==
  pc = "accepted" =>
    /\ coverSlab(slab, -1, slab.ne) = [slab EXCEPT !.rv = slab.ne]
    /\ \A e0 \in Elements : \A subslab \in CoverInputs(e0) :
         coverSlab(slab, subslab, e0)
           = [slab EXCEPT !.elast = CoverElast(subslab, e0),
                          !.rv = e0 + Cardinality(CoverRun(subslab, e0))]
    /\ \A e \in Elements : \A subslab \in CoverInputs(e) :
         coverNext(slab, subslab, e)
           = IF slab.es[e] = subslab
               THEN [slab EXCEPT !.rv = subslab]
               ELSE [slab EXCEPT !.elast = CoverElast(slab.es[e], e),
                                 !.rv = slab.es[e]]

\* the controller has gone through a slab with a sub-slab of several elements
\* that is followed by another sub-slab, and a sample has moved elast back
C27_Witness ==
  /\ pc = "accepted" /\ tcov >= 0
  /\ \E e0 \in Elements :
       /\ Cardinality(CoverRun(slab.es[e0], e0)) >= 2
       /\ e0 + Cardinality(CoverRun(slab.es[e0], e0)) < slab.ne
       /\ CoverElast(slab.es[e0], e0) # slab.elast

\* C28: build(a, b) calls ode.update(u0, a, false) exactly once when
\* a < eps and not at all otherwise, the call comes after the slab is created
\* and _a, _b are recorded, and what it returns is ignored: the slab and the
\* end time returned are the same whether the hook returns true or false
C28_UpdateAtStart ==
  [][BuildStep =>
       /\ slab'.nupdate = slab.nupdate + (IF BuildStart < Eps THEN 1 ELSE 0)
       /\ BuildStart < Eps =>
            slab'.hooked = [recorded |-> TRUE, created |-> TRUE]
       /\ slab' = build(slab, BuildStart, breq', TRUE)
       /\ slab' = build(slab, BuildStart, breq', FALSE)]_vars

\* a build at a = 0 has called the hook and a build at a > 0 has not
C28_Witness ==
  /\ pc = "built" /\ nbuilds = 2 /\ slab.a > 0
  /\ slab.hooked.recorded /\ slab.hooked.created
  /\ slab.nupdate = 2

\* C29: a shift that returns true changes only u, u0, elast and emax: _a,
\* _b, the counts ns, ne, nj, nd and the arrays sa, sb, ei, es, ee, ed, jx and
\* de are after the call as they were before it
C29_ShiftFrame ==
  [][(ShiftStep /\ pc' = "shifted") =>
       /\ slab'.rv = TRUE
       /\ slab'.a = slab.a /\ slab'.b = slab.b
       /\ <<slab'.ns, slab'.ne, slab'.nj, slab'.nd>>
            = <<slab.ns, slab.ne, slab.nj, slab.nd>>
       /\ IndexArrays(slab') = IndexArrays(slab)
       /\ slab'.jx = slab.jx
       /\ [slab' EXCEPT !.u = slab.u, !.u0 = slab.u0, !.elast = slab.elast,
                        !.emax = slab.emax, !.rv = slab.rv,
                        !.nupdate = slab.nupdate] = slab]_vars

\* a shift has returned true and has changed u0 and, after a sample at an
\* earlier time, elast
C29_Witness ==
  /\ pc = "shifted" /\ slab.rv = TRUE
  /\ slab.u0 # [i \in Comps |-> Real(i + 1)]
  /\ slab.u0 = slab.u
  /\ slab.emax = slab.ne - 1
  /\ \A i \in Comps : slab.elast[i] # -1 /\ slab.sb[slab.es[slab.elast[i]]] = slab.b

\* the number of components of sub-slab s
SubSlabSize(s) == Cardinality({e \in Elements : slab.es[e] = s})

\* C30: build(a, b) with a < b ends when every partition update gives a
\* positive step and a non-empty head: each nested sub-slab advances t
\* strictly, so no loop of computeDataSize or createTimeSlab goes on with the
\* same t, every sub-slab has a positive length and at least one component,
\* and with at most N levels of sub-slabs of length kmin or more the slab
\* has at most N * (b - a) / kmin sub-slabs
C30_BuildEnds ==
  nbuilds > 0 =>
    /\ "no_progress" \notin slab.failed
    /\ slab.a < slab.b
    /\ slab.kmin > 0
    /\ \A s \in SubSlabs :
         /\ slab.sb[s] - slab.sa[s] >= slab.kmin
         /\ SubSlabSize(s) >= 1
    /\ slab.ns * slab.kmin <= N * (slab.b - slab.a)
    /\ slab.ns <= slab.ne

\* a slab with three levels of sub-slabs and several sub-slabs on the last
C30_Witness ==
  /\ pc = "built"
  /\ \E s1, s2, s3 \in SubSlabs :
       /\ slab.sb[s1] - slab.sa[s1] > slab.sb[s2] - slab.sa[s2]
       /\ slab.sb[s2] - slab.sa[s2] > slab.sb[s3] - slab.sa[s3]
  /\ slab.ns >= 2 * N

----------------------------------------------------------------------------
\* elast[i1] as create_d(i0, e0, ...) finds it: the last element of i1
\* created before e0
ElastBefore(i1, e0) ==
  SetMax({-1} \cup {e \in Elements : e < e0 /\ slab.ei[e] = i1})

\* the elements create_d(ei[e0], e0, ...) reads ed[e1] and ed[e1 + 1] for
LargerElements(e0) ==
  {e1 \in {ElastBefore(i1, e0) : i1 \in transpose(slab.ei[e0])} :
     LargerElement(slab, e1, slab.es[e0], ElementA(e0), ElementB(e0))}

\* C31: during build ed, which has at least ne entries, is never accessed out
\* of range: create_s writes exactly the indices 0 .. ne - 1 (edw), and
\* whenever create_d has read ed[e1] and ed[e1 + 1] for a larger-step element
\* e1, both entries were inside the array and written in this build (no
\* ed_range), so that e1 + 1 <= ne - 1
C31_EdInRange ==
  pc = "built" =>
    /\ DOMAIN slab.ed = 0 .. slab.size_e.size - 1
    /\ slab.ne <= slab.size_e.size
    /\ slab.edw = 0 .. slab.ne - 1
    /\ "ed_range" \notin slab.failed
    /\ \A d \in 0 .. slab.nd - 1 :
         \E e1 \in 0 .. slab.ne - 2 : slab.ed[e1] <= d /\ d < slab.ed[e1 + 1]

\* a rebuild that needs fewer elements than ed has entries, with an element
\* of a larger step that a later element is stored as a dependency of
C31_Witness ==
  /\ pc = "built" /\ nbuilds >= 2
  /\ slab.ne < slab.size_e.size
  /\ \E e0 \in Elements : \E e1 \in LargerElements(e0) :
       \E d \in DeRange(e1) : slab.de[d] = e0

----------------------------------------------------------------------------
\* the elements the forward sweep of coverTime(t) stops at: the sub-slab
\* starts at or after t and after _a
SweepStops(t) ==
  {e \in Elements : t < (ElementA(e) + Eps) /\ slab.a < (ElementA(e) - Eps)}

\* C32: when build returns, the start time sa[es[e]] is non-decreasing in the
\* element index e (each element starts no earlier than the one before it),
\* so that after an element the forward sweep of coverTime(t) stops at, the
\* next element does not start before t either; after sample(t) every element
\* that starts before t has been passed by elast
C32_StartTimesSorted ==
  /\ pc = "built" =>
       /\ \A e \in Elements \ {0} : ElementA(e - 1) <= ElementA(e)
       /\ \A t \in SampleTimes : \A e \in Elements \ {0} :
            (t < (ElementA(e - 1) + Eps) /\ slab.a < (ElementA(e - 1) - Eps))
              => t < (ElementA(e) + Eps)
  /\ (pc = "accepted" /\ tcov # -1) =>
       \A e \in Elements :
         (ElementA(e) + Eps) <= tcov => slab.elast[slab.ei[e]] >= e

\* a sample inside a slab with nested sub-slabs where the forward sweep has
\* stopped before the last element, with elements of three start times
C32_Witness ==
  /\ pc = "accepted" /\ tcov # -1 /\ slab.a < tcov /\ tcov < slab.b
  /\ slab.emax < slab.ne - 1
  /\ SweepStops(tcov) # {} /\ SetMin(SweepStops(tcov)) = slab.emax + 1
  /\ Cardinality({ElementA(e) : e \in Elements}) >= 3

----------------------------------------------------------------------------
\* the slab when the solver, going through the solved slab once more, calls
\* feval for element e0: the elements up to the last one of the sub-slab of
\* e0 are covered, u is what the last evaluation left
FevalCall(e0) ==
  [Forget(slab) EXCEPT !.elast = [i \in Comps |-> CallElast(e0, i)]]

FevalOnce(e0) == feval(FevalCall(e0), e0)

FevalTwice(e0) == feval(feval(FevalCall(e0), e0), e0)

\* the buffer f of the last call of feval
LastF(s) == s.fval[Len(s.fval)]

\* C33: cg_feval and dg_feval write only the buffer f and the scratch vector
\* u, in u only entries of the components in ode.dependencies[i0], and leave
\* jx, u0, f0, elast, emax, sa, sb, ei, es, ee, ed and de unchanged, so that
\* evaluating an element twice with no solver update between gives the same f
C33_FevalRepeatable ==
  pc = "solved" =>
    \A e0 \in Elements :
      /\ [FevalOnce(e0) EXCEPT !.u = slab.u, !.fval = <<>>, !.dread = <<>>,
                               !.jread = {}]
           = FevalCall(e0)
      /\ \A i \in Comps \ dependencies(slab.ei[e0]) :
           FevalOnce(e0).u[i] = slab.u[i]
      /\ LastF(FevalTwice(e0)) = LastF(FevalOnce(e0))

----------------------------------------------------------------------------
\* the ids of the integrals of a type, in the order they are stored in
IntegralIds(ints) == [k \in DOMAIN ints |-> ints[k].id]

StrictlyIncreasing(ids) ==
  \A k \in 1 .. Len(ids) - 1 : ids[k] < ids[k + 1]

Registered(ints) == {ints[k].id : k \in DOMAIN ints}

----------------------------------------------------------------------------
\* the calls that take a position
Lookups == {"get_tabulate_tensor_function", "integral_domains"}

\* C35: get_tabulate_tensor_function(type, i) and integral_domains(type, i)
\* throw for every i >= num_integrals(type) and return the entry at position
\* i otherwise; neither reads past the end of the vector
C35_InvalidIndexThrows ==
  call.op \in Lookups =>
    /\ call.thrown = (call.i >= num_integrals(integrals[call.type]))
    /\ ~call.past
    /\ (~call.thrown /\ call.op = "get_tabulate_tensor_function") =>
         call.tabulate = integrals[call.type][call.i + 1].tabulate
    /\ (~call.thrown /\ call.op = "integral_domains") =>
         call.domains = integrals[call.type][call.i + 1].active_entities

----------------------------------------------------------------------------
\* C36: after build kmin is the minimum of ode.endtime() and the lengths
\* sb[s] - sa[s] of the sub-slabs this build created; the values kmin took in
\* the dry run of allocData (which starts from the kmin of the constructor or
\* of the build before) do not survive
C36_KminOfBuild ==
  nbuilds > 0 =>
    slab.kmin = SetMin({EndTime} \cup {slab.sb[s] - slab.sa[s] : s \in SubSlabs})

\* a first build, whose dry run started from kmin = 0, with nested sub-slabs
\* shorter than the slab and the slab shorter than the end time
C36_Witness ==
  /\ pc = "built" /\ nbuilds = 1
  /\ slab.b - slab.a < EndTime
  /\ slab.kmin < slab.b - slab.a
  /\ \E s \in SubSlabs : slab.sb[s] - slab.sa[s] > slab.kmin

====
